---- MODULE Spec2Model ----
(***************************************************************************)
(* Challenge lifecycle engine of unCaptcha / CaptchaLM: the fixed-window   *)
(* rate limiter (utils/rate-limiter.ts), the challenge verifier            *)
(* (core/verifier.ts) in its stateful and stateless modes, and the part of *)
(* the generator (core/generator.ts) that signs and issues a challenge.    *)
(*                                                                         *)
(* Every public method is synchronous, so one call is one atomic action    *)
(* that reads the clock once.  Time is counted in abstract milliseconds.   *)
(* HMAC-SHA256 is taken to be collision free: a digest is modelled by the  *)
(* pair (key, signed text) it was computed from.                           *)
(***************************************************************************)
EXTENDS Integers, Sequences, FiniteSets, TLC

\* ---------------------------------------------------------------- bounds
MaxTime == 2            \* the clock runs over 0..MaxTime
MaxIds == 1             \* number of challenges generateId can hand out
MaxAttemptsCfg == 2     \* configurations cover maxAttempts in 0..MaxAttemptsCfg
MaxStores == 2          \* storeChallenge calls not yet matched by a successful verify, per id
MaxCalls == 3           \* attempts one key makes inside one window
MaxStrLen == 2          \* length of the strings handed to encode and decode
MaxChainLen == 2        \* length of the lists handed to encodeChain and decodeChain
windowMs == 1           \* config.rateLimit.windowMs, scaled down
expirationMs == 1       \* config.expirationMs, scaled down

\* ------------------------------------------------------------- vocabulary
Undefined == "<undefined>"      \* undefined (or null): reading a property of it throws
NonString == "<number>"         \* a value that is not a string: its .length is undefined
secret == "server-secret"
Ids == 1..MaxIds         \* the tokens generateId returns, in the order it returns them
UnknownId == MaxIds + 1  \* a token generateId never returned
ClientIdentifiers == {"c1", "", Undefined}

\* ------------------------------------------------- JavaScript Map helpers
EmptyMap == [x \in {} |-> x]
MapHas(m, k) == k \in DOMAIN m
MapSet(m, k, v) == [x \in (DOMAIN m) \cup {k} |-> IF x = k THEN v ELSE m[x]]
MapDelete(m, k) == [x \in (DOMAIN m) \ {k} |-> m[x]]

\* an optional value: <<>> is undefined, <<v>> is the value v
None == <<>>
Some(v) == <<v>>
OrElse(opt, default) == IF opt = None THEN default ELSE opt[1]

VARIABLES
    now,                \* Date.now()
    maxAttempts,        \* config.rateLimit.maxAttempts
    entries,            \* RateLimiter.entries : key -> {count, resetAt}
    rlCleanupInterval,  \* RateLimiter.cleanupInterval is armed
    challengeStore,     \* ChallengeVerifier.challengeStore : id -> {expectedAnswer, expiresAt}
    cleanupInterval,    \* ChallengeVerifier.cleanupInterval is armed
    issued,             \* challenges handed to clients : id -> Challenge
    answers,            \* expectedAnswer returned by generate, per id
    last,               \* the last call: its arguments, what it saw, what it returned
    window,             \* per key: start of the current window and the calls made in it
    credit,             \* per id: storeChallenge calls minus verify calls that returned valid
    consumed            \* ids verified successfully and not stored again since

vars == <<now, maxAttempts, entries, rlCleanupInterval, challengeStore,
          cleanupInterval, issued, answers, last, window, credit,
          consumed>>

limiterVars == <<entries, rlCleanupInterval>>
verifierVars == <<challengeStore, cleanupInterval>>
issueVars == <<issued, answers>>
countVars == <<credit, consumed>>

\* ----------------------------------------------------------- RateLimiter
\* clientIdentifier || 'anonymous'
\* `clientIdentifier ?? 'anonymous'`: the empty string is a key of its own
ClientKey_NullishOnly(clientIdentifier) ==
    IF clientIdentifier = Undefined THEN "anonymous" ELSE clientIdentifier

\* clientIdentifier || 'anonymous'
ClientKey(clientIdentifier) ==
    IF clientIdentifier = Undefined \/ clientIdentifier = ""
    THEN "anonymous" ELSE clientIdentifier

Keys == {ClientKey(c) : c \in ClientIdentifiers}

\* the limit test made one too lenient
recordAttempt_OffByOne(ents, key, t) ==
    LET fresh == ~MapHas(ents, key) \/ t > ents[key].resetAt
        entry == IF fresh THEN [count |-> 0, resetAt |-> t + windowMs]
                          ELSE ents[key]
    IN  IF entry.count > maxAttempts
        THEN [entries |-> MapSet(ents, key, entry), allowed |-> FALSE,
              remaining |-> 0, resetAt |-> entry.resetAt]
        ELSE [entries |-> MapSet(ents, key, [entry EXCEPT !.count = @ + 1]),
              allowed |-> TRUE,
              remaining |-> maxAttempts - (entry.count + 1),
              resetAt |-> entry.resetAt]

\* the limit test made one too strict
recordAttempt_DeniesEarly(ents, key, t) ==
    LET fresh == ~MapHas(ents, key) \/ t > ents[key].resetAt
        entry == IF fresh THEN [count |-> 0, resetAt |-> t + windowMs]
                          ELSE ents[key]
    IN  IF entry.count + 1 >= maxAttempts
        THEN [entries |-> MapSet(ents, key, entry), allowed |-> FALSE,
              remaining |-> 0, resetAt |-> entry.resetAt]
        ELSE [entries |-> MapSet(ents, key, [entry EXCEPT !.count = @ + 1]),
              allowed |-> TRUE,
              remaining |-> maxAttempts - (entry.count + 1),
              resetAt |-> entry.resetAt]

\* an elapsed window is never replaced
recordAttempt_NoWindowReset(ents, key, t) ==
    LET fresh == ~MapHas(ents, key)
        entry == IF fresh THEN [count |-> 0, resetAt |-> t + windowMs]
                          ELSE ents[key]
    IN  IF entry.count >= maxAttempts
        THEN [entries |-> MapSet(ents, key, entry), allowed |-> FALSE,
              remaining |-> 0, resetAt |-> entry.resetAt]
        ELSE [entries |-> MapSet(ents, key, [entry EXCEPT !.count = @ + 1]),
              allowed |-> TRUE,
              remaining |-> maxAttempts - (entry.count + 1),
              resetAt |-> entry.resetAt]

\* a sliding window: every attempt inside the window restarts it
recordAttempt_Sliding(ents, key, t) ==
    LET fresh == ~MapHas(ents, key) \/ t > ents[key].resetAt
        entry == IF fresh THEN [count |-> 0, resetAt |-> t + windowMs]
                          ELSE [ents[key] EXCEPT !.resetAt = t + windowMs]
    IN  IF entry.count >= maxAttempts
        THEN [entries |-> MapSet(ents, key, entry), allowed |-> FALSE,
              remaining |-> 0, resetAt |-> entry.resetAt]
        ELSE [entries |-> MapSet(ents, key, [entry EXCEPT !.count = @ + 1]),
              allowed |-> TRUE,
              remaining |-> maxAttempts - (entry.count + 1),
              resetAt |-> entry.resetAt]

recordAttempt(ents, key, t) ==
    LET fresh == ~MapHas(ents, key) \/ t > ents[key].resetAt
        entry == IF fresh THEN [count |-> 0, resetAt |-> t + windowMs]
                          ELSE ents[key]
    IN  IF entry.count >= maxAttempts
        THEN [entries |-> MapSet(ents, key, entry), allowed |-> FALSE,
              remaining |-> 0, resetAt |-> entry.resetAt]
        ELSE [entries |-> MapSet(ents, key, [entry EXCEPT !.count = @ + 1]),
              allowed |-> TRUE,
              remaining |-> maxAttempts - (entry.count + 1),
              resetAt |-> entry.resetAt]

\* the entry of a limited key is dropped when it is looked up
isRateLimited_DropsLimited(ents, key, t) ==
    IF ~MapHas(ents, key)
    THEN [entries |-> ents, limited |-> FALSE]
    ELSE IF t > ents[key].resetAt \/ ents[key].count >= maxAttempts
         THEN [entries |-> MapDelete(ents, key),
               limited |-> t <= ents[key].resetAt]
         ELSE [entries |-> ents, limited |-> FALSE]

isRateLimited(ents, key, t) ==
    IF ~MapHas(ents, key)
    THEN [entries |-> ents, limited |-> FALSE]
    ELSE IF t > ents[key].resetAt
         THEN [entries |-> MapDelete(ents, key), limited |-> FALSE]
         ELSE [entries |-> ents, limited |-> ents[key].count >= maxAttempts]

Max0(n) == IF n > 0 THEN n ELSE 0

getRemainingAttempts(ents, key, t) ==
    IF ~MapHas(ents, key) \/ t > ents[key].resetAt
    THEN maxAttempts
    ELSE Max0(maxAttempts - ents[key].count)

\* the key's entry survives reset
reset_Keep(ents, key) == ents

reset(ents, key) == MapDelete(ents, key)

limiterCleanup(ents, t) ==
    [k \in {x \in DOMAIN ents : ~(t > ents[x].resetAt)} |-> ents[k]]

\* ------------------------------------------- window monitor (observation)
\* A window of key k opens with the first recordAttempt made when k has no
\* open window, lasts while now <= t0 + windowMs, and is closed early by
\* reset(k), clear() and destroy().
\* `elapsed` remembers that the key's last window ran out of time.
\* `calls` counts the attempts of the window, `failed` the verify calls among
\* them that did not succeed, `passed` the verifyStateless calls that did.
NoWindow == [open |-> FALSE, elapsed |-> FALSE, t0 |-> 0, calls |-> 0, failed |-> 0,
             passed |-> 0]
ElapsedWindow == [NoWindow EXCEPT !.elapsed = TRUE]

WindowOpen(k) == window[k].open

WindowAfterAttempt(k, isFailure) ==
    LET w == IF WindowOpen(k) THEN window[k]
             ELSE [NoWindow EXCEPT !.open = TRUE, !.t0 = now]
    IN  [w EXCEPT !.calls = @ + 1,
                  !.failed = IF isFailure THEN @ + 1 ELSE @]

WindowsAt(t) ==
    [k \in Keys |-> IF window[k].open /\ t > window[k].t0 + windowMs
                    THEN ElapsedWindow ELSE window[k]]

\* the attempts of one key inside one window are capped at MaxCalls
MayAttempt(k) == WindowOpen(k) => window[k].calls < MaxCalls

NoCall == [op |-> "none"]

\* The caller has taken the previous return value, and the verifier has
\* not been destroyed: destroy() is the last call made on an instance.
Idle == last = NoCall /\ cleanupInterval /\ rlCleanupInterval

\* ------------------------------------------------------------------ Init
Init ==
    /\ now = 0
    /\ maxAttempts \in 0..MaxAttemptsCfg
    /\ entries = EmptyMap
    /\ rlCleanupInterval = TRUE
    /\ challengeStore = EmptyMap
    /\ cleanupInterval = TRUE
    /\ issued = EmptyMap
    /\ answers = EmptyMap
    /\ last = NoCall
    /\ window = [k \in Keys |-> NoWindow]
    /\ credit = [i \in Ids \cup {UnknownId} |-> 0]
    /\ consumed = {}

\* ------------------------------------------------------------- the clock
\* the caller takes the return value of the last call
Return ==
    /\ last # NoCall
    /\ last' = NoCall
    /\ UNCHANGED <<now, maxAttempts, limiterVars, verifierVars, issueVars, window, countVars>>

TickStep ==
    /\ now < MaxTime
    /\ now' = now + 1
    /\ window' = WindowsAt(now + 1)
    /\ UNCHANGED <<last, maxAttempts, limiterVars, verifierVars, issueVars, countVars>>

Tick == Idle /\ TickStep

\* ------------------------------------------------- RateLimiter operations
RecordAttempt(key) ==
    LET r == recordAttempt(entries, key, now)
    IN  /\ Idle
        /\ MayAttempt(key)
        /\ entries' = r.entries
        /\ window' = [window EXCEPT ![key] = WindowAfterAttempt(key, FALSE)]
        /\ last' = [op |-> "recordAttempt", key |-> key, at |-> now,
                    afterElapsed |-> window[key].elapsed,
                    hadEntry |-> MapHas(entries, key),
                    allowed |-> r.allowed, remaining |-> r.remaining,
                    resetAt |-> r.resetAt]
        /\ UNCHANGED <<now, maxAttempts, rlCleanupInterval, verifierVars, issueVars, countVars>>

IsRateLimited(key) ==
    LET r == isRateLimited(entries, key, now)
    IN  /\ Idle
        /\ entries' = r.entries
        /\ last' = [op |-> "isRateLimited", key |-> key, at |-> now,
                    limited |-> r.limited]
        /\ UNCHANGED <<now, maxAttempts, rlCleanupInterval, verifierVars, issueVars, window, countVars>>

GetRemainingAttempts(key) ==
    /\ Idle
    /\ last' = [op |-> "getRemainingAttempts", key |-> key, at |-> now,
                remaining |-> getRemainingAttempts(entries, key, now)]
    /\ UNCHANGED <<now, maxAttempts, limiterVars, verifierVars, issueVars, window, countVars>>

Reset(key) ==
    /\ Idle
    /\ entries' = reset(entries, key)
    /\ window' = [window EXCEPT ![key] = NoWindow]
    /\ last' = [op |-> "reset", key |-> key, at |-> now]
    /\ UNCHANGED <<now, maxAttempts, rlCleanupInterval, verifierVars, issueVars, countVars>>

Clear ==
    /\ Idle
    /\ entries' = EmptyMap
    /\ window' = [k \in Keys |-> NoWindow]
    /\ last' = [op |-> "clear", at |-> now]
    /\ UNCHANGED <<now, maxAttempts, rlCleanupInterval, verifierVars, issueVars, countVars>>

\* the setInterval callback of RateLimiter.startCleanup
LimiterSweep ==
    /\ Idle
    /\ rlCleanupInterval
    /\ entries' = limiterCleanup(entries, now)
    /\ last' = [op |-> "limiterSweep", at |-> now]
    /\ UNCHANGED <<now, maxAttempts, rlCleanupInterval, verifierVars, issueVars, window, countVars>>

LimiterDestroy ==
    /\ Idle
    /\ rlCleanupInterval' = FALSE
    /\ entries' = EmptyMap
    /\ window' = [k \in Keys |-> NoWindow]
    /\ last' = [op |-> "limiterDestroy", at |-> now]
    /\ UNCHANGED <<now, maxAttempts, verifierVars, issueVars, countVars>>

\* --------------------------------------------------- crypto, serialization
\* JSON.stringify of an object given as its <<key, value>> pairs in insertion
\* order: the keys are written in that order and a key whose value is
\* undefined is left out.
JSONstringify(obj) == SelectSeq(obj, LAMBDA kv : kv[2] # Undefined)

\* what a client holds after the challenge went through JSON transport
JSONroundtrip(challenge) == [challenge EXCEPT !.payload = JSONstringify(@)]

\* expiresAt left out of the signed text
signatureData_NoExpiresAt(id, type, payload, expiresAt, expectedAnswer) ==
    << <<"id", id>>, <<"type", type>>, <<"payload", JSONstringify(payload)>>,
       <<"expectedAnswer", expectedAnswer>> >>

\* payload left out of the signed text
signatureData_NoPayload(id, type, payload, expiresAt, expectedAnswer) ==
    << <<"id", id>>, <<"type", type>>,
       <<"expiresAt", expiresAt>>, <<"expectedAnswer", expectedAnswer>> >>

\* expectedAnswer left out of the signed text
signatureData_NoExpectedAnswer(id, type, payload, expiresAt, expectedAnswer) ==
    << <<"id", id>>, <<"type", type>>, <<"payload", JSONstringify(payload)>>,
       <<"expiresAt", expiresAt>> >>

\* JSON.stringify({id, type, payload, expiresAt, expectedAnswer})
signatureData(id, type, payload, expiresAt, expectedAnswer) ==
    << <<"id", id>>, <<"type", type>>, <<"payload", JSONstringify(payload)>>,
       <<"expiresAt", expiresAt>>, <<"expectedAnswer", expectedAnswer>> >>

\* createHmac('sha256', secret).update(data).digest('hex'): a string, and a
\* different one for every (key, data)
signChallenge(data, key) == ToString(<<"hmac-sha256", key, data>>)

\* a.length and b.length are read outside the try block
safeCompareThrows(a, b) == a = Undefined \/ b = Undefined

\* equal lengths and timingSafeEqual of the bytes; a non-string has no
\* length equal to a string's, and Buffer.from of it is caught
safeCompare(a, b) == a # NonString /\ b # NonString /\ a = b

\* ------------------------------------------------------ utils/encoding.ts
\* A JavaScript string is its sequence of UTF-16 code units, a Buffer its
\* sequence of bytes.
IsHighSurrogate(c) == c >= 55296 /\ c <= 56319
IsLowSurrogate(c) == c >= 56320 /\ c <= 57343
IsContinuation(b) == b >= 128 /\ b <= 191
ReplacementChar == 65533

\* the string written one byte per code unit, as 'latin1' does
BufferFromUtf8_Latin1(str) == [i \in DOMAIN str |-> str[i] % 256]

\* Buffer.from(value, 'utf-8'): a surrogate pair is one 4-byte sequence, an
\* unpaired surrogate is written as U+FFFD (EF BF BD)
RECURSIVE BufferFromUtf8(_)
BufferFromUtf8(str) ==
    IF str = <<>> THEN <<>>
    ELSE LET c == Head(str)
         IN  IF c < 128 THEN <<c>> \o BufferFromUtf8(Tail(str))
             ELSE IF c < 2048
             THEN <<192 + (c \div 64), 128 + (c % 64)>> \o BufferFromUtf8(Tail(str))
             ELSE IF IsHighSurrogate(c) /\ Len(str) >= 2 /\ IsLowSurrogate(str[2])
             THEN LET cp == 65536 + (c - 55296) * 1024 + (str[2] - 56320)
                  IN  <<240 + (cp \div 262144), 128 + ((cp \div 4096) % 64),
                        128 + ((cp \div 64) % 64), 128 + (cp % 64)>>
                      \o BufferFromUtf8(Tail(Tail(str)))
             ELSE IF IsHighSurrogate(c) \/ IsLowSurrogate(c)
             THEN <<239, 191, 189>> \o BufferFromUtf8(Tail(str))
             ELSE <<224 + (c \div 4096), 128 + ((c \div 64) % 64), 128 + (c % 64)>>
                  \o BufferFromUtf8(Tail(str))

\* the second byte a lead byte accepts (no overlong form, no surrogate, no
\* code point above U+10FFFF)
SecondByteOk(lead, b) ==
    /\ b >= (IF lead = 224 THEN 160 ELSE IF lead = 240 THEN 144 ELSE 128)
    /\ b <= (IF lead = 237 THEN 159 ELSE IF lead = 244 THEN 143 ELSE 191)

Drop(seq, n) == SubSeq(seq, n + 1, Len(seq))

\* buf.toString('utf-8'): every ill-formed part of the input becomes U+FFFD
RECURSIVE BufferToStringUtf8(_)
BufferToStringUtf8(buf) ==
    IF buf = <<>> THEN <<>>
    ELSE LET b == Head(buf)
             n == Len(buf)
             bad(k) == <<ReplacementChar>> \o BufferToStringUtf8(Drop(buf, k))
         IN  IF b < 128 THEN <<b>> \o BufferToStringUtf8(Tail(buf))
             ELSE IF b >= 194 /\ b <= 223
             THEN IF n >= 2 /\ IsContinuation(buf[2])
                  THEN <<(b - 192) * 64 + (buf[2] - 128)>>
                       \o BufferToStringUtf8(Drop(buf, 2))
                  ELSE bad(1)
             ELSE IF b >= 224 /\ b <= 239
             THEN IF ~(n >= 2 /\ SecondByteOk(b, buf[2])) THEN bad(1)
                  ELSE IF ~(n >= 3 /\ IsContinuation(buf[3])) THEN bad(2)
                  ELSE <<(b - 224) * 4096 + (buf[2] - 128) * 64 + (buf[3] - 128)>>
                       \o BufferToStringUtf8(Drop(buf, 3))
             ELSE IF b >= 240 /\ b <= 244
             THEN IF ~(n >= 2 /\ SecondByteOk(b, buf[2])) THEN bad(1)
                  ELSE IF ~(n >= 3 /\ IsContinuation(buf[3])) THEN bad(2)
                  ELSE IF ~(n >= 4 /\ IsContinuation(buf[4])) THEN bad(3)
                  ELSE LET cp == (b - 240) * 262144 + (buf[2] - 128) * 4096
                                 + (buf[3] - 128) * 64 + (buf[4] - 128) - 65536
                       IN  <<55296 + (cp \div 1024), 56320 + (cp % 1024)>>
                           \o BufferToStringUtf8(Drop(buf, 4))
             ELSE bad(1)

\* the base64 alphabet: A-Z a-z 0-9 + /
Base64Char(i) ==
    IF i < 26 THEN 65 + i
    ELSE IF i < 52 THEN 97 + (i - 26)
    ELSE IF i < 62 THEN 48 + (i - 52)
    ELSE IF i = 62 THEN 43 ELSE 47

\* the value of a base64 character, -1 for any other; the decoder also takes
\* the url-safe '-' and '_'
Base64Value(c) ==
    IF c >= 65 /\ c <= 90 THEN c - 65
    ELSE IF c >= 97 /\ c <= 122 THEN c - 97 + 26
    ELSE IF c >= 48 /\ c <= 57 THEN c - 48 + 52
    ELSE IF c = 43 \/ c = 45 THEN 62
    ELSE IF c = 47 \/ c = 95 THEN 63
    ELSE 0 - 1

\* buf.toString('base64'), padded with '='
RECURSIVE BufferToStringBase64(_)
BufferToStringBase64(buf) ==
    IF buf = <<>> THEN <<>>
    ELSE IF Len(buf) = 1
    THEN <<Base64Char(buf[1] \div 4), Base64Char((buf[1] % 4) * 16), 61, 61>>
    ELSE IF Len(buf) = 2
    THEN <<Base64Char(buf[1] \div 4),
           Base64Char((buf[1] % 4) * 16 + (buf[2] \div 16)),
           Base64Char((buf[2] % 16) * 4), 61>>
    ELSE <<Base64Char(buf[1] \div 4),
           Base64Char((buf[1] % 4) * 16 + (buf[2] \div 16)),
           Base64Char((buf[2] % 16) * 4 + (buf[3] \div 64)),
           Base64Char(buf[3] % 64)>> \o BufferToStringBase64(Drop(buf, 3))

\* the sextets of the characters in front of the first '=', characters
\* outside the alphabet skipped
RECURSIVE Base64Sextets(_)
Base64Sextets(str) ==
    IF str = <<>> \/ Head(str) = 61 THEN <<>>
    ELSE IF Base64Value(Head(str)) < 0 THEN Base64Sextets(Tail(str))
    ELSE <<Base64Value(Head(str))>> \o Base64Sextets(Tail(str))

RECURSIVE Base64Pack(_)
Base64Pack(sx) ==
    IF Len(sx) < 2 THEN <<>>
    ELSE IF Len(sx) = 2 THEN <<sx[1] * 4 + (sx[2] \div 16)>>
    ELSE IF Len(sx) = 3
    THEN <<sx[1] * 4 + (sx[2] \div 16), (sx[2] % 16) * 16 + (sx[3] \div 4)>>
    ELSE <<sx[1] * 4 + (sx[2] \div 16), (sx[2] % 16) * 16 + (sx[3] \div 4),
           (sx[3] % 4) * 64 + sx[4]>> \o Base64Pack(Drop(sx, 4))

\* Buffer.from(value, 'base64'): never throws
BufferFromBase64(str) == Base64Pack(Base64Sextets(str))

HexChar(i) == IF i < 10 THEN 48 + i ELSE 97 + (i - 10)

\* the value of a hex digit of either case, -1 for any other character
HexValue(c) ==
    IF c >= 48 /\ c <= 57 THEN c - 48
    ELSE IF c >= 97 /\ c <= 102 THEN c - 97 + 10
    ELSE IF c >= 65 /\ c <= 70 THEN c - 65 + 10
    ELSE 0 - 1

\* buf.toString('hex')
RECURSIVE BufferToStringHex(_)
BufferToStringHex(buf) ==
    IF buf = <<>> THEN <<>>
    ELSE <<HexChar(Head(buf) \div 16), HexChar(Head(buf) % 16)>>
         \o BufferToStringHex(Tail(buf))

\* Buffer.from(value, 'hex'): never throws; decoding stops in front of the
\* first pair that is not two hex digits, a last single character is dropped
RECURSIVE BufferFromHex(_)
BufferFromHex(str) ==
    IF Len(str) < 2 THEN <<>>
    ELSE IF HexValue(str[1]) < 0 \/ HexValue(str[2]) < 0 THEN <<>>
    ELSE <<HexValue(str[1]) * 16 + HexValue(str[2])>> \o BufferFromHex(Drop(str, 2))

encodeBase64(value) == BufferToStringBase64(BufferFromUtf8(value))
decodeBase64(value) == BufferToStringUtf8(BufferFromBase64(value))
encodeHex(value) == BufferToStringHex(BufferFromUtf8(value))
decodeHex(value) == BufferToStringUtf8(BufferFromHex(value))

\* value.replace(/[a-zA-Z]/g, ...): each letter moved 13 places in its case
Rot13Char(c) ==
    IF (c >= 65 /\ c <= 90) \/ (c >= 97 /\ c <= 122)
    THEN LET base == IF c <= 90 THEN 65 ELSE 97
         IN  ((c - base + 13) % 26) + base
    ELSE c

encodeRot13(value) == [i \in DOMAIN value |-> Rot13Char(value[i])]
decodeRot13(value) == encodeRot13(value)

EncodingTypes == {"plain", "base64", "hex", "rot13"}

\* the default branch of the switch: throw new Error('Unknown encoding type')
encodeThrows(value, encoding) == encoding \notin EncodingTypes
decodeThrows(value, encoding) == encoding \notin EncodingTypes

encode(value, encoding) ==
    CASE encoding = "plain" -> value
      [] encoding = "base64" -> encodeBase64(value)
      [] encoding = "hex" -> encodeHex(value)
      [] encoding = "rot13" -> encodeRot13(value)

decode(value, encoding) ==
    CASE encoding = "plain" -> value
      [] encoding = "base64" -> decodeBase64(value)
      [] encoding = "hex" -> decodeHex(value)
      [] encoding = "rot13" -> decodeRot13(value)

\* encodings.reduce((acc, encoding) => encode(acc, encoding), value)
RECURSIVE encodeChain(_, _)
encodeChain(value, encodings) ==
    IF encodings = <<>> THEN value
    ELSE encodeChain(encode(value, Head(encodings)), Tail(encodings))

Reverse(seq) == [i \in DOMAIN seq |-> seq[Len(seq) + 1 - i]]

\* [...encodings].reverse().reduce((acc, encoding) => decode(acc, encoding), value)
RECURSIVE decodeReduce(_, _)
decodeReduce(value, reversed) ==
    IF reversed = <<>> THEN value
    ELSE decodeReduce(decode(value, Head(reversed)), Tail(reversed))

\* the layers undone in the order they were applied
decodeChain_NoReverse(value, encodings) == decodeReduce(value, encodings)

decodeChain(value, encodings) == decodeReduce(value, Reverse(encodings))

\* ------------------------------------------------------ ChallengeGenerator
\* results of generatePayload: one chained_operations puzzle (the operation
\* 'abs' carries value: undefined) and one code_transform puzzle whose answer
\* is base64 encoded
PuzzlePool ==
    { [type |-> "chained_operations", difficulty |-> "easy",
       payload |-> << <<"type", "chained_operations">>,
                      <<"initialValue", "42">>,
                      <<"operations[0].operation", "abs">>,
                      <<"operations[0].value", Undefined>>,
                      <<"responseEncoding", "plain">> >>,
       expectedAnswer |-> "42"],
      [type |-> "code_transform", difficulty |-> "medium",
       payload |-> << <<"type", "code_transform">>,
                      <<"code", "const x = 1; const y = 2; return x + y;">>,
                      <<"transform", "execute">>,
                      <<"responseEncoding", "base64">> >>,
       expectedAnswer |-> "Mw=="] }

generate(puzzle, id, t) ==
    LET expiresAt == t + expirationMs
        signature == signChallenge(
            signatureData(id, puzzle.type, puzzle.payload, expiresAt,
                          puzzle.expectedAnswer), secret)
    IN  [challenge |-> [id |-> id, type |-> puzzle.type,
                        difficulty |-> puzzle.difficulty,
                        payload |-> puzzle.payload,
                        expiresAt |-> expiresAt, signature |-> signature],
         expectedAnswer |-> puzzle.expectedAnswer]

\* ------------------------------------------------------- ChallengeVerifier
\* an entry that is already there is kept
storeChallenge_KeepsFirst(store, challengeId, expectedAnswer, expiresAt) ==
    IF MapHas(store, challengeId) THEN store
    ELSE MapSet(store, challengeId,
                [expectedAnswer |-> expectedAnswer, expiresAt |-> expiresAt])

storeChallenge(store, challengeId, expectedAnswer, expiresAt) ==
    MapSet(store, challengeId,
           [expectedAnswer |-> expectedAnswer, expiresAt |-> expiresAt])

Valid == [valid |-> TRUE, errorCode |-> Undefined, threw |-> FALSE]
Invalid(code) == [valid |-> FALSE, errorCode |-> code, threw |-> FALSE]
\* the call raised a TypeError: there is no VerificationResult
Thrown == [valid |-> Undefined, errorCode |-> Undefined, threw |-> TRUE]
Succeeded(result) == ~result.threw /\ result.valid

\* the challenge is rejected from its expiry instant on
challengeExpired_AtExpiry(t, challenge) == t >= challenge.expiresAt

\* the challenge is given one more millisecond
challengeExpired_Late(t, challenge) == t > challenge.expiresAt + 1

\* Date.now() > challenge.expiresAt
challengeExpired(t, challenge) == t > challenge.expiresAt

\* the entry survives a successful verification
consume_Keep(store, challengeId) == store

\* this.challengeStore.delete(challenge.id) on success
consume(store, challengeId) == MapDelete(store, challengeId)

\* the expiry test moved in front of the id test
verify_ExpiryFirst(store, ents, challenge, solution, clientIdentifier, t) ==
    LET clientKey == ClientKey(clientIdentifier)
        rl == recordAttempt(ents, clientKey, t)
        stored == store[challenge.id]
        expectedSignature ==
            signChallenge(signatureData(challenge.id, challenge.type,
                                        challenge.payload, challenge.expiresAt,
                                        stored.expectedAnswer), secret)
        fail(code) == [result |-> Invalid(code), store |-> store,
                       entries |-> rl.entries, allowed |-> rl.allowed]
    IN  IF ~rl.allowed THEN fail("RATE_LIMITED")
        ELSE IF challengeExpired(t, challenge) THEN fail("EXPIRED")
        ELSE IF challenge.id # solution.challengeId THEN fail("CHALLENGE_NOT_FOUND")
        ELSE IF ~MapHas(store, challenge.id) THEN fail("CHALLENGE_NOT_FOUND")
        ELSE IF t > stored.expiresAt
             THEN [fail("EXPIRED") EXCEPT !.store = MapDelete(store, challenge.id)]
        ELSE IF safeCompareThrows(challenge.signature, expectedSignature)
             THEN [fail("") EXCEPT !.result = Thrown]
        ELSE IF ~safeCompare(challenge.signature, expectedSignature)
             THEN fail("INVALID_SIGNATURE")
        ELSE IF safeCompareThrows(solution.solution, stored.expectedAnswer)
             THEN [fail("") EXCEPT !.result = Thrown]
        ELSE IF ~safeCompare(solution.solution, stored.expectedAnswer)
             THEN fail("INVALID_SOLUTION")
        ELSE [result |-> Valid, store |-> consume(store, challenge.id),
              entries |-> reset(rl.entries, clientKey), allowed |-> TRUE]

\* a wrong answer burns the stored challenge
verify_ConsumeOnWrongAnswer(store, ents, challenge, solution, clientIdentifier, t) ==
    LET clientKey == ClientKey(clientIdentifier)
        rl == recordAttempt(ents, clientKey, t)
        stored == store[challenge.id]
        expectedSignature ==
            signChallenge(signatureData(challenge.id, challenge.type,
                                        challenge.payload, challenge.expiresAt,
                                        stored.expectedAnswer), secret)
        fail(code) == [result |-> Invalid(code), store |-> store,
                       entries |-> rl.entries, allowed |-> rl.allowed]
    IN  IF ~rl.allowed THEN fail("RATE_LIMITED")
        ELSE IF challenge.id # solution.challengeId THEN fail("CHALLENGE_NOT_FOUND")
        ELSE IF challengeExpired(t, challenge) THEN fail("EXPIRED")
        ELSE IF ~MapHas(store, challenge.id) THEN fail("CHALLENGE_NOT_FOUND")
        ELSE IF t > stored.expiresAt
             THEN [fail("EXPIRED") EXCEPT !.store = MapDelete(store, challenge.id)]
        ELSE IF safeCompareThrows(challenge.signature, expectedSignature)
             THEN [fail("") EXCEPT !.result = Thrown]
        ELSE IF ~safeCompare(challenge.signature, expectedSignature)
             THEN fail("INVALID_SIGNATURE")
        ELSE IF safeCompareThrows(solution.solution, stored.expectedAnswer)
             THEN [fail("") EXCEPT !.result = Thrown]
        ELSE IF ~safeCompare(solution.solution, stored.expectedAnswer)
             THEN [fail("INVALID_SOLUTION") EXCEPT !.store = MapDelete(store, challenge.id)]
        ELSE [result |-> Valid, store |-> consume(store, challenge.id),
              entries |-> reset(rl.entries, clientKey), allowed |-> TRUE]

\* the difficulty of the submitted challenge is compared with the issued one
verify_ChecksDifficulty(store, ents, challenge, solution, clientIdentifier, t) ==
    LET clientKey == ClientKey(clientIdentifier)
        rl == recordAttempt(ents, clientKey, t)
        stored == store[challenge.id]
        expectedSignature ==
            signChallenge(signatureData(challenge.id, challenge.type,
                                        challenge.payload, challenge.expiresAt,
                                        stored.expectedAnswer), secret)
        fail(code) == [result |-> Invalid(code), store |-> store,
                       entries |-> rl.entries, allowed |-> rl.allowed]
    IN  IF ~rl.allowed THEN fail("RATE_LIMITED")
        ELSE IF challenge.id # solution.challengeId THEN fail("CHALLENGE_NOT_FOUND")
        ELSE IF challengeExpired(t, challenge) THEN fail("EXPIRED")
        ELSE IF ~MapHas(store, challenge.id) THEN fail("CHALLENGE_NOT_FOUND")
        ELSE IF t > stored.expiresAt
             THEN [fail("EXPIRED") EXCEPT !.store = MapDelete(store, challenge.id)]
        ELSE IF safeCompareThrows(challenge.signature, expectedSignature)
             THEN [fail("") EXCEPT !.result = Thrown]
        ELSE IF ~safeCompare(challenge.signature, expectedSignature)
             THEN fail("INVALID_SIGNATURE")
        ELSE IF MapHas(issued, challenge.id)
                /\ challenge.difficulty # issued[challenge.id].difficulty
             THEN fail("INVALID_SIGNATURE")
        ELSE IF safeCompareThrows(solution.solution, stored.expectedAnswer)
             THEN [fail("") EXCEPT !.result = Thrown]
        ELSE IF ~safeCompare(solution.solution, stored.expectedAnswer)
             THEN fail("INVALID_SOLUTION")
        ELSE [result |-> Valid, store |-> consume(store, challenge.id),
              entries |-> reset(rl.entries, clientKey), allowed |-> TRUE]

verify(store, ents, challenge, solution, clientIdentifier, t) ==
    LET clientKey == ClientKey(clientIdentifier)
        rl == recordAttempt(ents, clientKey, t)
        stored == store[challenge.id]
        expectedSignature ==
            signChallenge(signatureData(challenge.id, challenge.type,
                                        challenge.payload, challenge.expiresAt,
                                        stored.expectedAnswer), secret)
        fail(code) == [result |-> Invalid(code), store |-> store,
                       entries |-> rl.entries, allowed |-> rl.allowed]
    IN  IF ~rl.allowed THEN fail("RATE_LIMITED")
        ELSE IF challenge.id # solution.challengeId THEN fail("CHALLENGE_NOT_FOUND")
        ELSE IF challengeExpired(t, challenge) THEN fail("EXPIRED")
        ELSE IF ~MapHas(store, challenge.id) THEN fail("CHALLENGE_NOT_FOUND")
        ELSE IF t > stored.expiresAt
             THEN [fail("EXPIRED") EXCEPT !.store = MapDelete(store, challenge.id)]
        ELSE IF safeCompareThrows(challenge.signature, expectedSignature)
             THEN [fail("") EXCEPT !.result = Thrown]
        ELSE IF ~safeCompare(challenge.signature, expectedSignature)
             THEN fail("INVALID_SIGNATURE")
        ELSE IF safeCompareThrows(solution.solution, stored.expectedAnswer)
             THEN [fail("") EXCEPT !.result = Thrown]
        ELSE IF ~safeCompare(solution.solution, stored.expectedAnswer)
             THEN fail("INVALID_SOLUTION")
        ELSE [result |-> Valid, store |-> consume(store, challenge.id),
              entries |-> reset(rl.entries, clientKey), allowed |-> TRUE]

\* a successful stateless verification also resets the client's rate limit
verifyStateless_ResetsOnSuccess(ents, challenge, solution, clientIdentifier, t) ==
    LET clientKey == ClientKey(clientIdentifier)
        rl == recordAttempt(ents, clientKey, t)
        computedSignature ==
            signChallenge(signatureData(challenge.id, challenge.type,
                                        challenge.payload, challenge.expiresAt,
                                        solution.solution), secret)
        fail(code) == [result |-> Invalid(code), entries |-> rl.entries,
                       allowed |-> rl.allowed]
    IN  IF ~rl.allowed THEN fail("RATE_LIMITED")
        ELSE IF challenge.id # solution.challengeId THEN fail("CHALLENGE_NOT_FOUND")
        ELSE IF challengeExpired(t, challenge) THEN fail("EXPIRED")
        ELSE IF safeCompareThrows(challenge.signature, computedSignature)
             THEN [fail("") EXCEPT !.result = Thrown]
        ELSE IF ~safeCompare(challenge.signature, computedSignature)
             THEN fail("INVALID_SOLUTION")
        ELSE [result |-> Valid, entries |-> reset(rl.entries, clientKey),
              allowed |-> TRUE]

\* the stateless path looks the challenge up in the store
verifyStateless_OneTimeUse(ents, challenge, solution, clientIdentifier, t) ==
    LET clientKey == ClientKey(clientIdentifier)
        rl == recordAttempt(ents, clientKey, t)
        computedSignature ==
            signChallenge(signatureData(challenge.id, challenge.type,
                                        challenge.payload, challenge.expiresAt,
                                        solution.solution), secret)
        fail(code) == [result |-> Invalid(code), entries |-> rl.entries,
                       allowed |-> rl.allowed]
    IN  IF ~rl.allowed THEN fail("RATE_LIMITED")
        ELSE IF challenge.id # solution.challengeId THEN fail("CHALLENGE_NOT_FOUND")
        ELSE IF challengeExpired(t, challenge) THEN fail("EXPIRED")
        ELSE IF ~MapHas(challengeStore, challenge.id) THEN fail("CHALLENGE_NOT_FOUND")
        ELSE IF safeCompareThrows(challenge.signature, computedSignature)
             THEN [fail("") EXCEPT !.result = Thrown]
        ELSE IF ~safeCompare(challenge.signature, computedSignature)
             THEN fail("INVALID_SOLUTION")
        ELSE [result |-> Valid, entries |-> rl.entries, allowed |-> TRUE]

verifyStateless(ents, challenge, solution, clientIdentifier, t) ==
    LET clientKey == ClientKey(clientIdentifier)
        rl == recordAttempt(ents, clientKey, t)
        computedSignature ==
            signChallenge(signatureData(challenge.id, challenge.type,
                                        challenge.payload, challenge.expiresAt,
                                        solution.solution), secret)
        fail(code) == [result |-> Invalid(code), entries |-> rl.entries,
                       allowed |-> rl.allowed]
    IN  IF ~rl.allowed THEN fail("RATE_LIMITED")
        ELSE IF challenge.id # solution.challengeId THEN fail("CHALLENGE_NOT_FOUND")
        ELSE IF challengeExpired(t, challenge) THEN fail("EXPIRED")
        ELSE IF safeCompareThrows(challenge.signature, computedSignature)
             THEN [fail("") EXCEPT !.result = Thrown]
        ELSE IF ~safeCompare(challenge.signature, computedSignature)
             THEN fail("INVALID_SOLUTION")
        ELSE [result |-> Valid, entries |-> rl.entries, allowed |-> TRUE]

\* remaining is read first, then isLimited, which drops a stale entry
getRateLimitStatus(ents, clientIdentifier, t) ==
    LET limited == isRateLimited(ents, clientIdentifier, t)
    IN  [status |-> [remaining |-> getRemainingAttempts(ents, clientIdentifier, t),
                     isLimited |-> limited.limited],
         entries |-> limited.entries]

\* the sweep also evicts the entries that expire at this instant
verifierCleanup_AtExpiry(store, t) ==
    [i \in {x \in DOMAIN store : ~(t >= store[x].expiresAt)} |-> store[i]]

\* the sweep finds nothing to evict
verifierCleanup_Keep(store, t) == store

verifierCleanup(store, t) ==
    [i \in {x \in DOMAIN store : ~(t > store[x].expiresAt)} |-> store[i]]

\* ------------------------------------------------------ what clients submit
ForgedSignature == signChallenge(<<>>, "attacker-secret")
OtherType(type) ==
    IF type = "chained_operations" THEN "code_transform" ELSE "chained_operations"
OtherDifficulty(d) == IF d = "hard" THEN "easy" ELSE "hard"
OtherId(id) == id + 1
SwapFirstTwo(seq) == [i \in DOMAIN seq |-> IF i = 1 THEN seq[2]
                                           ELSE IF i = 2 THEN seq[1] ELSE seq[i]]

\* the issued challenge with exactly one field edited, the signature kept
TamperedKeepingSignature(c) ==
    { [c EXCEPT !.payload[2][2] = "1000000"],
      [c EXCEPT !.type = OtherType(@)],
      [c EXCEPT !.expiresAt = @ + 1] }

Submissions(c) ==
    {c, JSONroundtrip(c)}
    \cup TamperedKeepingSignature(c)
    \cup { [c EXCEPT !.payload = SwapFirstTwo(@)],
           [c EXCEPT !.difficulty = OtherDifficulty(@)],
           [c EXCEPT !.id = OtherId(@)],
           [c EXCEPT !.signature = ForgedSignature] }

\* the answers a caller registers with storeChallenge directly
StoredAnswers == {"42"}

SubmittedChallenges == UNION {Submissions(issued[i]) : i \in DOMAIN issued}
SubmittedSolutions ==
    [challengeId : Ids \cup {UnknownId}, solution : {p.expectedAnswer : p \in PuzzlePool} \cup {"0"}]

\* ------------------------------------------------------------- operations
\* CaptchaLM.generate and the middleware's challenge handler:
\* generator.generate() followed by verifier.storeChallenge(...)
Generate(puzzle) ==
    LET id == Cardinality(DOMAIN issued) + 1      \* generateId(): a fresh token
        g == generate(puzzle, id, now)
    IN  /\ Idle
        /\ id \in Ids
        /\ issued' = MapSet(issued, id, g.challenge)
        /\ answers' = MapSet(answers, id, g.expectedAnswer)
        /\ challengeStore' = storeChallenge(challengeStore, id, g.expectedAnswer,
                                            g.challenge.expiresAt)
        /\ credit' = [credit EXCEPT ![id] = @ + 1]
        /\ consumed' = consumed \ {id}
        /\ last' = [op |-> "generate", id |-> id, at |-> now]
        /\ UNCHANGED <<now, maxAttempts, limiterVars, cleanupInterval, window>>

StoreChallengeCall(id, expectedAnswer, expiresAt) ==
    /\ credit[id] < MaxStores
    /\ challengeStore' = storeChallenge(challengeStore, id, expectedAnswer, expiresAt)
    /\ credit' = [credit EXCEPT ![id] = @ + 1]
    /\ consumed' = consumed \ {id}
    /\ last' = [op |-> "storeChallenge", id |-> id, at |-> now,
                expectedAnswer |-> expectedAnswer, expiresAt |-> expiresAt]
    /\ UNCHANGED <<now, maxAttempts, limiterVars, cleanupInterval, issueVars, window>>

StoreChallenge(id, expectedAnswer, expiresAt) ==
    Idle /\ StoreChallengeCall(id, expectedAnswer, expiresAt)

\* the failed verify calls of the key's current window, before this call
FailedBefore(key) == IF WindowOpen(key) THEN window[key].failed ELSE 0

VerifyCall(challenge, solution, clientIdentifier) ==
    LET key == ClientKey(clientIdentifier)
        r == verify(challengeStore, entries, challenge, solution, clientIdentifier, now)
    IN  /\ MayAttempt(key)
        /\ challengeStore' = r.store
        /\ entries' = r.entries
        /\ window' = [window EXCEPT ![key] =
                        IF Succeeded(r.result) THEN NoWindow
                        ELSE WindowAfterAttempt(key, TRUE)]
        /\ credit' = IF Succeeded(r.result)
                     THEN [credit EXCEPT ![challenge.id] = @ - 1]
                     ELSE credit
        /\ consumed' = IF Succeeded(r.result) THEN consumed \cup {challenge.id}
                       ELSE consumed
        /\ last' = [op |-> "verify", key |-> key, at |-> now,
                    clientIdentifier |-> clientIdentifier,
                    challenge |-> challenge, solution |-> solution,
                    store |-> challengeStore, wasConsumed |-> consumed,
                    failedBefore |-> FailedBefore(key),
                    allowed |-> r.allowed, result |-> r.result]
        /\ UNCHANGED <<now, maxAttempts, rlCleanupInterval, cleanupInterval, issueVars>>

Verify(challenge, solution, clientIdentifier) ==
    Idle /\ VerifyCall(challenge, solution, clientIdentifier)

VerifyStateless(challenge, solution, clientIdentifier) ==
    LET key == ClientKey(clientIdentifier)
        r == verifyStateless(entries, challenge, solution, clientIdentifier, now)
    IN  /\ Idle
        /\ MayAttempt(key)
        /\ entries' = r.entries
        /\ window' = [window EXCEPT ![key] =
                        [WindowAfterAttempt(key, FALSE) EXCEPT
                           !.passed = IF Succeeded(r.result) THEN @ + 1 ELSE @]]
        /\ last' = [op |-> "verifyStateless", key |-> key, at |-> now,
                    clientIdentifier |-> clientIdentifier,
                    challenge |-> challenge, solution |-> solution,
                    store |-> challengeStore, wasConsumed |-> consumed,
                    failedBefore |-> FailedBefore(key),
                    allowed |-> r.allowed, result |-> r.result]
        /\ UNCHANGED <<now, maxAttempts, rlCleanupInterval, verifierVars, issueVars, countVars>>

GetRateLimitStatus(clientIdentifier) ==
    LET r == getRateLimitStatus(entries, clientIdentifier, now)
    IN  /\ Idle
        /\ entries' = r.entries
        /\ last' = [op |-> "getRateLimitStatus", key |-> clientIdentifier,
                    at |-> now, status |-> r.status]
        /\ UNCHANGED <<now, maxAttempts, rlCleanupInterval, verifierVars, issueVars, window, countVars>>

\* the handler of createVerificationEndpoint: challenge and solution are
\* taken from req.body as they come, a missing or empty solution is answered
\* with status 400; an exception leaves the handler (status 500)
Falsy(v) == v = Undefined \/ v = ""

VerificationEndpoint(challenge, solution, ip) ==
    LET clientIdentifier == IF Falsy(ip) THEN "unknown" ELSE ip
        key == ClientKey(clientIdentifier)
        challengeSolution == [challengeId |-> challenge.id, solution |-> solution]
        r == verifyStateless(entries, challenge, challengeSolution,
                             clientIdentifier, now)
    IN  /\ Idle
        /\ MayAttempt(key)
        /\ IF Falsy(solution)
           THEN /\ last' = [op |-> "verificationEndpoint", at |-> now,
                            status |-> 400]
                /\ UNCHANGED <<entries, window>>
           ELSE /\ entries' = r.entries
                /\ window' = [window EXCEPT ![key] = WindowAfterAttempt(key, FALSE)]
                /\ last' = [op |-> "verificationEndpoint", key |-> key, at |-> now,
                            status |-> IF r.result.threw THEN 500 ELSE 200,
                            challenge |-> challenge, solution |-> challengeSolution,
                            allowed |-> r.allowed, result |-> r.result]
        /\ UNCHANGED <<now, maxAttempts, rlCleanupInterval, verifierVars, issueVars, countVars>>

\* the protect middleware: the challenge id and the solution come from the
\* request headers (None when a header is absent), the challenge from
\* req.body._unCaptchaChallenge (None when absent). Without both headers a
\* challenge is generated and stored inline and sent with status 401; a
\* verified request is handed to next() (recorded as status 200).
Protect(puzzle, challengeIdHeader, solutionHeader, bodyChallenge, clientIdentifier) ==
    LET key == ClientKey(clientIdentifier)
        id == Cardinality(DOMAIN issued) + 1
        g == generate(puzzle, id, now)
        challengeSolution == [challengeId |-> challengeIdHeader[1],
                              solution |-> solutionHeader[1]]
        r == verify(challengeStore, entries, bodyChallenge[1], challengeSolution,
                    clientIdentifier, now)
    IN  /\ Idle
        /\ IF challengeIdHeader = None \/ solutionHeader = None
              \/ solutionHeader = Some("")
           THEN /\ id \in Ids
                /\ issued' = MapSet(issued, id, g.challenge)
                /\ answers' = MapSet(answers, id, g.expectedAnswer)
                /\ challengeStore' = storeChallenge(challengeStore, id, g.expectedAnswer,
                                                    g.challenge.expiresAt)
                /\ credit' = [credit EXCEPT ![id] = @ + 1]
                /\ consumed' = consumed \ {id}
                /\ last' = [op |-> "protect", at |-> now, status |-> 401,
                            next |-> FALSE]
                /\ UNCHANGED <<entries, window>>
           ELSE IF bodyChallenge = None
           THEN /\ last' = [op |-> "protect", at |-> now, status |-> 401,
                            next |-> FALSE]
                /\ UNCHANGED <<entries, window, challengeStore, issueVars, countVars>>
           ELSE /\ MayAttempt(key)
                /\ challengeStore' = r.store
                /\ entries' = r.entries
                /\ window' = [window EXCEPT ![key] =
                                IF Succeeded(r.result) THEN NoWindow
                                ELSE WindowAfterAttempt(key, TRUE)]
                /\ credit' = IF Succeeded(r.result)
                             THEN [credit EXCEPT ![bodyChallenge[1].id] = @ - 1]
                             ELSE credit
                /\ consumed' = IF Succeeded(r.result)
                               THEN consumed \cup {bodyChallenge[1].id}
                               ELSE consumed
                /\ last' = [op |-> "protect", key |-> key, at |-> now,
                            status |-> IF r.result.valid THEN 200
                                       ELSE IF r.result.errorCode = "RATE_LIMITED"
                                       THEN 429 ELSE 401,
                            next |-> r.result.valid,
                            challenge |-> bodyChallenge[1],
                            solution |-> challengeSolution,
                            allowed |-> r.allowed, result |-> r.result]
                /\ UNCHANGED issueVars
        /\ UNCHANGED <<now, maxAttempts, rlCleanupInterval, cleanupInterval>>

\* the setInterval callback of ChallengeVerifier.startCleanup
VerifierSweep ==
    /\ Idle
    /\ cleanupInterval
    /\ challengeStore' = verifierCleanup(challengeStore, now)
    /\ last' = [op |-> "verifierSweep", at |-> now]
    /\ UNCHANGED <<now, maxAttempts, limiterVars, cleanupInterval, issueVars, window, countVars>>

\* destroy() without the call of rateLimiter.destroy()
Destroy_KeepsLimiter ==
    /\ Idle
    /\ cleanupInterval' = FALSE
    /\ challengeStore' = EmptyMap
    /\ last' = [op |-> "destroy", at |-> now,
                store |-> challengeStore, entries |-> entries]
    /\ UNCHANGED <<now, maxAttempts, limiterVars, issueVars, window, countVars>>

\* ChallengeVerifier.destroy, which calls RateLimiter.destroy
Destroy ==
    /\ Idle
    /\ cleanupInterval' = FALSE
    /\ rlCleanupInterval' = FALSE
    /\ entries' = EmptyMap
    /\ challengeStore' = EmptyMap
    /\ window' = [k \in Keys |-> NoWindow]
    /\ last' = [op |-> "destroy", at |-> now,
                store |-> challengeStore, entries |-> entries]
    /\ UNCHANGED <<now, maxAttempts, issueVars, countVars>>

\* ------------------------------------------------- encoding operations
\* 'A' 'n' '=' e-acute, the euro sign, and the two halves of U+1F600
StringChars == {65, 110, 61, 233, 8364, 55357, 56832}
\* '4' 'a' 'F' 'g'
HexInputChars == {52, 97, 70, 103}

SeqsUpTo(S, n) == UNION {[1..k -> S] : k \in 0..n}

Strings == SeqsUpTo(StringChars, MaxStrLen)
EncodedInputs == SeqsUpTo(HexInputChars, MaxStrLen)
EncodingLists == SeqsUpTo(EncodingTypes, MaxChainLen)

\* decode(encode(value, encoding), encoding)
RoundTrip(value, encoding) ==
    /\ Idle
    /\ last' = [op |-> "roundTrip", value |-> value, encoding |-> encoding,
                encoded |-> encode(value, encoding),
                decoded |-> decode(encode(value, encoding), encoding)]
    /\ UNCHANGED <<now, maxAttempts, limiterVars, verifierVars, issueVars, window, countVars>>

\* decodeChain(encodeChain(value, encodings), encodings)
ChainRoundTrip(value, encodings) ==
    /\ Idle
    /\ last' = [op |-> "chainRoundTrip", value |-> value, encodings |-> encodings,
                encoded |-> encodeChain(value, encodings),
                decoded |-> decodeChain(encodeChain(value, encodings), encodings)]
    /\ UNCHANGED <<now, maxAttempts, limiterVars, verifierVars, issueVars, window, countVars>>

\* decode(value, encoding) of a string that encode did not produce
Decode(value, encoding) ==
    /\ Idle
    /\ last' = [op |-> "decode", value |-> value, encoding |-> encoding,
                threw |-> decodeThrows(value, encoding),
                decoded |-> IF decodeThrows(value, encoding) THEN <<>>
                            ELSE decode(value, encoding)]
    /\ UNCHANGED <<now, maxAttempts, limiterVars, verifierVars, issueVars, window, countVars>>

EncodingNext ==
    \/ \E value \in Strings, encoding \in EncodingTypes : RoundTrip(value, encoding)
    \/ \E value \in Strings, encodings \in EncodingLists : ChainRoundTrip(value, encodings)
    \/ \E value \in EncodedInputs, encoding \in EncodingTypes \cup {"base32"} :
          Decode(value, encoding)
    \/ Return

SpecEncoding == Init /\ [][EncodingNext]_vars

\* ------------------------------------------------- function_execution
\* JavaScript values a registry function returns, and String(value)
Num(n) == [type |-> "number", value |-> n]
Bool(b) == [type |-> "boolean", value |-> IF b THEN 1 ELSE 0]
UndefinedValue == [type |-> "undefined", value |-> 0]
NaNValue == [type |-> "NaN", value |-> 0]

RECURSIVE Digits(_)
Digits(n) == IF n < 10 THEN <<48 + n>> ELSE Digits(n \div 10) \o <<48 + (n % 10)>>

\* String(value): decimal digits, 'true' / 'false', 'undefined', 'NaN'
String(v) ==
    CASE v.type = "number" ->
            IF v.value < 0 THEN <<45>> \o Digits(0 - v.value) ELSE Digits(v.value)
      [] v.type = "boolean" -> IF v.value = 1 THEN <<116, 114, 117, 101>>
                               ELSE <<102, 97, 108, 115, 101>>
      [] v.type = "undefined" -> <<117, 110, 100, 101, 102, 105, 110, 101, 100>>
      [] v.type = "NaN" -> <<78, 97, 78>>

\* functions/math.ts, on the non-negative integers generateParameters draws
RECURSIVE fibonacciLoop(_, _, _, _)
fibonacciLoop(i, n, a, b) == IF i <= n THEN fibonacciLoop(i + 1, n, b, a + b) ELSE b
fibonacci(n) == IF n <= 1 THEN n ELSE fibonacciLoop(2, n, 0, 1)

\* for (let i = 3; i <= Math.sqrt(n); i += 2)
RECURSIVE isPrimeLoop(_, _)
isPrimeLoop(i, n) ==
    IF i * i <= n THEN (IF n % i = 0 THEN FALSE ELSE isPrimeLoop(i + 2, n)) ELSE TRUE
isPrime(n) ==
    IF n < 2 THEN FALSE
    ELSE IF n = 2 THEN TRUE
    ELSE IF n % 2 = 0 THEN FALSE
    ELSE isPrimeLoop(3, n)

RECURSIVE gcd(_, _)
gcd(a, b) == IF b # 0 THEN gcd(b, a % b) ELSE a

lcm(a, b) == (a * b) \div gcd(a, b)

RECURSIVE factorialLoop(_, _, _)
factorialLoop(i, n, result) ==
    IF i <= n THEN factorialLoop(i + 1, n, result * i) ELSE result
factorial(n) == IF n <= 1 THEN 1 ELSE factorialLoop(2, n, 1)

RECURSIVE modPowLoop(_, _, _, _)
modPowLoop(result, base, exp, mod) ==
    IF exp > 0
    THEN modPowLoop(IF exp % 2 = 1 THEN (result * base) % mod ELSE result,
                    (base * base) % mod, exp \div 2, mod)
    ELSE result
modPow(base, exp, mod) == IF mod = 1 THEN 0 ELSE modPowLoop(1, base % mod, exp, mod)

RECURSIVE digitSumLoop(_, _)
digitSumLoop(n, sum) == IF n > 0 THEN digitSumLoop(n \div 10, sum + (n % 10)) ELSE sum
digitSum(n) == digitSumLoop(n, 0)

triangular(n) == (n * (n + 1)) \div 2

\* mathFunctions: the registry entries with one to three number parameters
\* and an integer or boolean result that needs no floating point
Registry ==
    { [name |-> "fibonacci", difficulty |-> "easy"],
      [name |-> "isPrime", difficulty |-> "easy"],
      [name |-> "gcd", difficulty |-> "easy"],
      [name |-> "lcm", difficulty |-> "medium"],
      [name |-> "factorial", difficulty |-> "easy"],
      [name |-> "modPow", difficulty |-> "hard"],
      [name |-> "digitSum", difficulty |-> "easy"],
      [name |-> "triangular", difficulty |-> "easy"] }

\* func.fn(...parameters)
fn(name, p) ==
    CASE name = "fibonacci" -> Num(fibonacci(p[1]))
      [] name = "isPrime" -> Bool(isPrime(p[1]))
      [] name = "gcd" -> Num(gcd(p[1], p[2]))
      [] name = "lcm" -> Num(lcm(p[1], p[2]))
      [] name = "factorial" -> Num(factorial(p[1]))
      [] name = "modPow" -> Num(modPow(p[1], p[2], p[3]))
      [] name = "digitSum" -> Num(digitSum(p[1]))
      [] name = "triangular" -> Num(triangular(p[1]))

Difficulties == {"easy", "medium", "hard"}

getFunctionsByDifficulty(difficulty) == {f \in Registry : f.difficulty = difficulty}

\* the outcomes of randomInt(min, max)
randomInt(min, max) == min..max

DifficultyRange(difficulty) ==
    IF difficulty = "easy" THEN <<1, 20>>
    ELSE IF difficulty = "medium" THEN <<10, 50>> ELSE <<20, 100>>

\* two of the values randomInt(1, 50) gives an element
ArraySamples == {1, 50}

\* the arrays generateRandomArray(length) can return, over ArraySamples
generateRandomArray(length) == [1..length -> ArraySamples]

ArrayLength(difficulty) ==
    IF difficulty = "easy" THEN 4 ELSE IF difficulty = "medium" THEN 6 ELSE 8

\* the parameter lists generateParameters can return
generateParameters(functionName, difficulty) ==
    LET range == DifficultyRange(difficulty)
        inRange == randomInt(range[1], range[2])
    IN  CASE functionName = "fibonacci" -> {<<n>> : n \in randomInt(5, 15)}
          [] functionName \in {"gcd", "lcm"} -> {<<a, b>> : a \in inRange, b \in inRange}
          [] functionName = "factorial" -> {<<n>> : n \in randomInt(3, 10)}
          [] functionName = "modPow" ->
                {<<b, e, m>> : b \in randomInt(2, 10), e \in randomInt(2, 8),
                               m \in randomInt(10, 50)}
          [] functionName = "secondLargest" ->
                {<<arr>> : arr \in generateRandomArray(ArrayLength(difficulty))}
          [] OTHER -> {<<n>> : n \in inRange}

\* the outcomes of getInstructionEncoding
getResponseEncoding_AsInstructions(difficulty) ==
    IF difficulty = "easy" THEN {"base64"}
    ELSE IF difficulty = "medium" THEN {"base64", "rot13"} ELSE {"hex", "rot13"}

\* the outcomes of getResponseEncoding
getResponseEncoding(difficulty) ==
    IF difficulty = "easy" THEN {"plain"}
    ELSE IF difficulty = "medium" THEN {"plain", "base64"} ELSE {"base64", "hex"}

\* the names codeMap has source text for
CodeMapNames == {"fibonacci", "isPrime", "gcd", "digitSum", "countVowels", "sumEvens"}

\* codeMap[functionName] || `function ${functionName}(...args) { /* implementation */ }`
getFunctionCodeString(functionName) ==
    [name |-> functionName,
     body |-> IF functionName \in CodeMapNames THEN "source" ELSE "placeholder"]

\* what the source texts of codeMap compute (the same statements as the
\* registry functions, without the argument checks)
codeMapFunction(name, p) ==
    CASE name = "fibonacci" -> Num(IF p[1] <= 1 THEN p[1] ELSE fibonacciLoop(2, p[1], 0, 1))
      [] name = "isPrime" ->
            Bool(IF p[1] < 2 THEN FALSE
                 ELSE IF p[1] = 2 THEN TRUE
                 ELSE IF p[1] % 2 = 0 THEN FALSE
                 ELSE isPrimeLoop(3, p[1]))
      [] name = "gcd" -> Num(gcd(p[1], p[2]))
      [] name = "digitSum" -> Num(digitSumLoop(p[1], 0))

\* code.match(/function\s+(\w+)/)
extractFunctionName(code) == code.name

\* new Function(code + 'return <name>;')()(...params): the placeholder has an
\* empty body and returns undefined
executeFunction(code, params) ==
    IF code.body = "placeholder" THEN UndefinedValue
    ELSE codeMapFunction(extractFunctionName(code), params)

generateFunctionExecution(func, parameters, responseEncoding) ==
    [payload |-> [type |-> "function_execution", functionName |-> func.name,
                  functionCode |-> getFunctionCodeString(func.name),
                  parameters |-> parameters,
                  responseEncoding |-> responseEncoding],
     expectedAnswer |-> encode(String(fn(func.name, parameters)), responseEncoding)]

\* ChallengeSolver.solve: executePayload, then encode(String(rawResult), responseEncoding)
solve(payload) ==
    encode(String(executeFunction(payload.functionCode, payload.parameters)),
           payload.responseEncoding)

\* a function_execution challenge is generated and a client solves it
GenerateFunctionExecution(func, parameters, responseEncoding) ==
    LET g == generateFunctionExecution(func, parameters, responseEncoding)
    IN  /\ Idle
        /\ last' = [op |-> "generateFunctionExecution",
                    difficulty |-> func.difficulty,
                    payload |-> g.payload,
                    expectedAnswer |-> g.expectedAnswer,
                    solution |-> solve(g.payload)]
        /\ UNCHANGED <<now, maxAttempts, limiterVars, verifierVars, issueVars, window, countVars>>

FunctionExecutionNext ==
    \/ \E difficulty \in Difficulties :
         \E func \in getFunctionsByDifficulty(difficulty) :
           \E parameters \in generateParameters(func.name, difficulty),
              responseEncoding \in getResponseEncoding(difficulty) :
             GenerateFunctionExecution(func, parameters, responseEncoding)
    \/ Return

SpecFunctionExecution == Init /\ [][FunctionExecutionNext]_vars

\* ------------------------------ generate() over the checked registry entries
\* the i-th argument of a call fn(...parameters)
Arg(parameters, i) == IF i <= Len(parameters) THEN Some(parameters[i]) ELSE None

\* a % b of JavaScript for a positive b: the sign follows the dividend
Remainder(a, b) == IF a >= 0 THEN a % b ELSE 0 - ((0 - a) % b)

Abs(x) == IF x < 0 THEN 0 - x ELSE x

KnownOperations ==
    {"add", "subtract", "multiply", "divide", "modulo", "power",
     "floor", "ceil", "abs", "negate"}

\* one iteration of the loop of applyChainedOperations, on integers
applyOperation(result, op) ==
    CASE op.operation = "add" -> result + OrElse(op.value, 0)
      [] op.operation = "subtract" -> result - OrElse(op.value, 0)
      [] op.operation = "multiply" -> result * OrElse(op.value, 1)
      [] op.operation = "modulo" -> Remainder(result, OrElse(op.value, 1))
      [] op.operation = "power" -> result ^ OrElse(op.value, 1)
      [] op.operation \in {"floor", "ceil"} -> result
      [] op.operation = "abs" -> Abs(result)
      [] op.operation = "negate" -> 0 - result

RECURSIVE applyChainedOperationsFrom(_, _, _)
applyChainedOperationsFrom(result, operations, i) ==
    IF i > Len(operations) THEN result
    ELSE applyChainedOperationsFrom(applyOperation(result, operations[i]), operations, i + 1)

\* functions/composite.ts; operations is None when the call passes one argument
applyChainedOperations(initialValue, operations) ==
    applyChainedOperationsFrom(initialValue, operations[1], 1)

\* `for (const op of operations)` of an undefined operations is a TypeError;
\* a zero divisor and an unknown operation are thrown by the loop
applyChainedOperationsThrows(initialValue, operations) ==
    \/ operations = None
    \/ \E i \in 1..Len(operations[1]) :
         LET op == operations[1][i]
         IN  \/ op.operation \notin KnownOperations
             \/ op.operation \in {"divide", "modulo"} /\ op.value = Some(0)

\* evaluateExpression(expr) for a number expr
evaluateExpression(expr) == expr

SetMax(S) == CHOOSE x \in S : \A y \in S : y <= x

\* [...new Set(arr)].sort((a, b) => b - a)[1]
secondLargest(arr) ==
    LET distinct == {arr[i] : i \in 1..Len(arr)}
    IN  SetMax(distinct \ {SetMax(distinct)})

secondLargestThrows(arr) ==
    \/ Len(arr) < 2
    \/ Cardinality({arr[i] : i \in 1..Len(arr)}) < 2

\* the registry entries whose function checks its arguments and whose
\* arguments come from generateRandomArray or from the default branch
arrayFunctions == {[name |-> "secondLargest", difficulty |-> "medium"]}

compositeFunctions ==
    { [name |-> "applyChainedOperations", difficulty |-> "medium"],
      [name |-> "evaluateExpression", difficulty |-> "hard"] }

allFunctions == Registry \cup arrayFunctions \cup compositeFunctions

\* func.fn(...parameters) raises
fnThrows(name, p) ==
    CASE name \in {"fibonacci", "factorial"} -> p[1] < 0
      [] name = "secondLargest" -> secondLargestThrows(p[1])
      [] name = "applyChainedOperations" ->
            applyChainedOperationsThrows(p[1], Arg(p, 2))
      [] OTHER -> FALSE

\* func.fn(...parameters) over allFunctions
fnAll(name, p) ==
    CASE name = "secondLargest" -> Num(secondLargest(p[1]))
      [] name = "applyChainedOperations" ->
            Num(applyChainedOperations(p[1], Arg(p, 2)))
      [] name = "evaluateExpression" -> Num(evaluateExpression(p[1]))
      [] OTHER -> fn(name, p)

\* generate({type: 'function_execution', difficulty}): getRandomFunction picked
\* func, generateParameters drew parameters; nothing catches what fn throws
GenerateCall(difficulty, func, parameters, responseEncoding) ==
    /\ Idle
    /\ last' = IF fnThrows(func.name, parameters)
               THEN [op |-> "generate", difficulty |-> difficulty,
                     functionName |-> func.name, parameters |-> parameters,
                     threw |-> TRUE]
               ELSE [op |-> "generate", difficulty |-> difficulty,
                     functionName |-> func.name, parameters |-> parameters,
                     threw |-> FALSE,
                     expectedAnswer |->
                         encode(String(fnAll(func.name, parameters)), responseEncoding)]
    /\ UNCHANGED <<now, maxAttempts, limiterVars, verifierVars, issueVars, window, countVars>>

GenerateNext ==
    \/ Idle /\ \E difficulty \in Difficulties :
         \E func \in { f \in allFunctions : f.difficulty = difficulty } :
           \E parameters \in generateParameters(func.name, difficulty),
              responseEncoding \in getResponseEncoding(difficulty) :
             GenerateCall(difficulty, func, parameters, responseEncoding)
    \/ Return

SpecGenerate == Init /\ [][GenerateNext]_vars

\* ------------------------------------------------ chained_operations puzzles
\* the loop of generateChainedOperations runs 3, 5 or 7 times; the model
\* follows it for at most MaxOperationCount iterations
MaxOperationCount == 3

\* running values the model follows exactly
MaxRunningValue == 1000

operationCount(difficulty) ==
    LET count == IF difficulty = "easy" THEN 3 ELSE IF difficulty = "medium" THEN 5 ELSE 7
    IN  IF count <= MaxOperationCount THEN count ELSE MaxOperationCount

availableOps(difficulty) ==
    {"add", "subtract", "multiply", "modulo", "floor", "abs"}
    \cup (IF difficulty = "hard" THEN {"power", "ceil", "negate"} ELSE {})

\* some of the outcomes of randomInt(10, 100) for initialValue
InitialValueSamples == {10, 42, 100}

\* the first switch of the loop with a remainder operand drawn from 0
operationValues_ModuloFromZero(operation) ==
    CASE operation \in {"add", "subtract"} -> {Some(17), Some(50)}
      [] operation = "multiply" -> {Some(3), Some(10)}
      [] operation = "divide" -> {Some(2), Some(5)}
      [] operation = "modulo" -> {Some(0), Some(50)}
      [] operation = "power" -> {Some(1), Some(3)}
      [] OTHER -> {None}

\* the value drawn for an operation: some of the outcomes of randomInt(1, 50),
\* randomInt(2, 10), randomInt(2, 5), randomInt(10, 100), randomInt(1, 3),
\* undefined for the operations without operand
operationValues(operation) ==
    CASE operation \in {"add", "subtract"} -> {Some(17), Some(50)}
      [] operation = "multiply" -> {Some(3), Some(10)}
      [] operation = "divide" -> {Some(2), Some(5)}
      [] operation = "modulo" -> {Some(10), Some(50)}
      [] operation = "power" -> {Some(1), Some(3)}
      [] OTHER -> {None}

\* operations.push({ operation, value })
OperationChoices(difficulty) ==
    UNION { {[operation |-> o, value |-> v] : v \in operationValues(o)} :
            o \in availableOps(difficulty) }

OperationLists(difficulty) ==
    [1..operationCount(difficulty) -> OperationChoices(difficulty)]

\* an operand that makes the running value NaN in the second switch of the
\* loop: `currentValue op undefined`, and `currentValue % 0`; NaN then stays
\* NaN through every later operation the loop can draw
NaNOperand(op) ==
    /\ op.operation \in {"add", "subtract", "multiply", "modulo", "power"}
    /\ (IF op.value = None THEN TRUE
        ELSE op.operation = "modulo" /\ op.value = Some(0))

\* "Calculate running value": the second switch of the loop, with value!
runningValueStep(currentValue, op) ==
    CASE op.operation = "add" -> currentValue + op.value[1]
      [] op.operation = "subtract" -> currentValue - op.value[1]
      [] op.operation = "multiply" -> currentValue * op.value[1]
      [] op.operation = "modulo" -> Remainder(currentValue, op.value[1])
      [] op.operation = "power" -> currentValue ^ op.value[1]
      [] op.operation \in {"floor", "ceil"} -> currentValue
      [] op.operation = "abs" -> Abs(currentValue)
      [] op.operation = "negate" -> 0 - currentValue

RECURSIVE runningValue(_, _, _)
runningValue(currentValue, operations, i) ==
    IF i > Len(operations) THEN currentValue
    ELSE runningValue(runningValueStep(currentValue, operations[i]), operations, i + 1)

\* every value the loop passes through is one the model follows exactly
RECURSIVE Followed(_, _, _)
Followed(currentValue, operations, i) ==
    IF i > Len(operations) THEN TRUE
    ELSE IF Abs(currentValue) > MaxRunningValue THEN FALSE
    ELSE Followed(runningValueStep(currentValue, operations[i]), operations, i + 1)

generateChainedOperations(initialValue, operations, responseEncoding) ==
    LET currentValue == runningValue(initialValue, operations, 1)
    IN  [payload |-> [type |-> "chained_operations",
                      initialValue |-> initialValue,
                      operations |-> operations,
                      responseEncoding |-> responseEncoding],
         currentValue |-> currentValue,
         expectedAnswer |-> encode(String(Num(currentValue)), responseEncoding)]

\* one iteration of the loop of executeChainedOperations (client/solver)
executeOperation(result, op) ==
    CASE op.operation = "add" -> result + OrElse(op.value, 0)
      [] op.operation = "subtract" -> result - OrElse(op.value, 0)
      [] op.operation = "multiply" -> result * OrElse(op.value, 1)
      [] op.operation = "modulo" -> Remainder(result, OrElse(op.value, 1))
      [] op.operation = "power" -> result ^ OrElse(op.value, 1)
      [] op.operation \in {"floor", "ceil"} -> result
      [] op.operation = "abs" -> Abs(result)
      [] op.operation = "negate" -> 0 - result

RECURSIVE executeFrom(_, _, _)
executeFrom(result, operations, i) ==
    IF i > Len(operations) THEN result
    ELSE executeFrom(executeOperation(result, operations[i]), operations, i + 1)

RECURSIVE executeBackFrom(_, _, _)
executeBackFrom(result, operations, i) ==
    IF i < 1 THEN result
    ELSE executeBackFrom(executeOperation(result, operations[i]), operations, i - 1)

executeChainedOperations_RightToLeft(initialValue, operations) ==
    executeBackFrom(initialValue, operations, Len(operations))

executeChainedOperations(initialValue, operations) ==
    executeFrom(initialValue, operations, 1)

\* a chained_operations challenge is generated and a client solves it, with
\* the solver's loop and with the registry's applyChainedOperations
GenerateChainedOperations(difficulty, initialValue, operations, responseEncoding) ==
    LET g == generateChainedOperations(initialValue, operations, responseEncoding)
        executed == executeChainedOperations(g.payload.initialValue, g.payload.operations)
    IN  /\ Idle
        /\ IF \E i \in 1..Len(operations) : NaNOperand(operations[i])
           THEN last' = [op |-> "generateChainedOperations",
                         difficulty |-> difficulty,
                         payload |-> [type |-> "chained_operations",
                                      initialValue |-> initialValue,
                                      operations |-> operations,
                                      responseEncoding |-> responseEncoding],
                         expectedAnswer |-> encode(String(NaNValue), responseEncoding)]
           ELSE /\ Followed(initialValue, operations, 1)
                /\ last' = [op |-> "generateChainedOperations",
                            difficulty |-> difficulty,
                            payload |-> g.payload,
                            currentValue |-> g.currentValue,
                            expectedAnswer |-> g.expectedAnswer,
                            executed |-> executed,
                            applied |-> applyChainedOperations(g.payload.initialValue,
                                                               Some(g.payload.operations)),
                            solution |-> encode(String(Num(executed)), responseEncoding)]
        /\ UNCHANGED <<now, maxAttempts, limiterVars, verifierVars, issueVars, window, countVars>>

ChainedOperationsNext ==
    \/ Idle /\ \E difficulty \in Difficulties :
         \E initialValue \in InitialValueSamples,
            operations \in OperationLists(difficulty),
            responseEncoding \in getResponseEncoding(difficulty) :
           GenerateChainedOperations(difficulty, initialValue, operations, responseEncoding)
    \/ Return

SpecChainedOperations == Init /\ [][ChainedOperationsNext]_vars

\* ------------------------------- the other puzzle types, and all of them
\* the instruction encoding: never 'plain'
getInstructionEncoding(difficulty) ==
    IF difficulty = "easy" THEN {"base64"}
    ELSE IF difficulty = "medium" THEN {"base64", "rot13"} ELSE {"hex", "rot13"}

\* some of the outcomes of randomInt(10, 100) and of randomInt(1, 20)
OperandSamples == {10, 42, 100}
TermSamples == {1, 20}

InstructionOperators == {"+", "-", "*"}

OperatorChar(op) == IF op = "+" THEN 43 ELSE IF op = "-" THEN 45 ELSE 42

\* `Calculate: ${a} ${op} ${b}`
instructionText(a, op, b) ==
    <<67, 97, 108, 99, 117, 108, 97, 116, 101, 58, 32>>
    \o String(Num(a)) \o <<32, OperatorChar(op), 32>> \o String(Num(b))

generateEncodedInstruction(a, op, b, instructionEncoding, responseEncoding) ==
    LET result == IF op = "+" THEN a + b ELSE IF op = "-" THEN a - b ELSE a * b
    IN  [payload |-> [type |-> "encoded_instruction",
                      instruction |-> encode(instructionText(a, op, b), instructionEncoding),
                      instructionEncoding |-> instructionEncoding,
                      responseEncoding |-> responseEncoding],
         result |-> Num(result),
         expectedAnswer |-> encode(String(Num(result)), responseEncoding)]

\* `const x = ${a}; const y = ${b}; return x + y;`
generateCodeTransform(a, b, responseEncoding) ==
    [payload |-> [type |-> "code_transform", code |-> <<a, b>>,
                  transform |-> "execute", responseEncoding |-> responseEncoding],
     result |-> Num(a + b),
     expectedAnswer |-> encode(String(Num(a + b)), responseEncoding)]

GenerateEncodedInstruction(difficulty, a, op, b, instructionEncoding, responseEncoding) ==
    LET g == generateEncodedInstruction(a, op, b, instructionEncoding, responseEncoding)
    IN  /\ Idle
        /\ last' = [op |-> "generateEncodedInstruction", difficulty |-> difficulty,
                    payload |-> g.payload, result |-> g.result,
                    expectedAnswer |-> g.expectedAnswer]
        /\ UNCHANGED <<now, maxAttempts, limiterVars, verifierVars, issueVars, window, countVars>>

GenerateCodeTransform(difficulty, a, b, responseEncoding) ==
    LET g == generateCodeTransform(a, b, responseEncoding)
    IN  /\ Idle
        /\ last' = [op |-> "generateCodeTransform", difficulty |-> difficulty,
                    payload |-> g.payload, result |-> g.result,
                    expectedAnswer |-> g.expectedAnswer]
        /\ UNCHANGED <<now, maxAttempts, limiterVars, verifierVars, issueVars, window, countVars>>

\* generatePayload(type, difficulty) for four of the five types
PayloadNext ==
    \/ Idle /\ \E difficulty \in Difficulties :
         \E func \in getFunctionsByDifficulty(difficulty) :
           \E parameters \in generateParameters(func.name, difficulty),
              responseEncoding \in getResponseEncoding(difficulty) :
             GenerateFunctionExecution(func, parameters, responseEncoding)
    \/ Idle /\ \E difficulty \in Difficulties :
         \E initialValue \in InitialValueSamples,
            operations \in OperationLists(difficulty),
            responseEncoding \in getResponseEncoding(difficulty) :
           GenerateChainedOperations(difficulty, initialValue, operations, responseEncoding)
    \/ Idle /\ \E difficulty \in Difficulties :
         \E a \in OperandSamples, b \in OperandSamples, op \in InstructionOperators,
            instructionEncoding \in getInstructionEncoding(difficulty),
            responseEncoding \in getResponseEncoding(difficulty) :
           GenerateEncodedInstruction(difficulty, a, op, b, instructionEncoding,
                                      responseEncoding)
    \/ Idle /\ \E difficulty \in Difficulties :
         \E a \in TermSamples, b \in TermSamples,
            responseEncoding \in getResponseEncoding(difficulty) :
           GenerateCodeTransform(difficulty, a, b, responseEncoding)
    \/ Return

SpecPayload == Init /\ [][PayloadNext]_vars

\* ------------------------------------------------------- utils/crypto.ts
\* randomInt(min, max) for the ranges 1..MaxRange and the ranges around the
\* one-byte limit
MaxRange == 6
MinSamples == {0, 1, 10}
RandomIntCalls ==
    {<<min, min + range - 1>> : min \in MinSamples, range \in 1..MaxRange}
    \cup {<<0, 255>>, <<0, 256>>}

\* Math.ceil(Math.log2(range) / 8) || 1: the least b >= 1 with 256^b >= range
RECURSIVE bytesNeededFrom(_, _)
bytesNeededFrom(range, b) == IF 256 ^ b >= range THEN b ELSE bytesNeededFrom(range, b + 1)

bytesNeeded(range) == bytesNeededFrom(range, 1)

maxValid_NoRounding(range) == 256 ^ bytesNeeded(range) - 1

\* Math.floor(256 ** bytesNeeded / range) * range - 1
maxValid(range) == ((256 ^ bytesNeeded(range)) \div range) * range - 1

\* the bytes randomBytes(bytesNeeded) returns: every byte when one is asked
\* for, the extreme bytes when two are
Bytes(n) == IF n = 1 THEN [1..1 -> 0..255] ELSE [1..n -> {0, 255}]

\* bytes.reduce((acc, byte, i) => acc + byte * (256 ** i), 0)
RECURSIVE reduceBytes(_, _)
reduceBytes(bytes, i) ==
    IF i > Len(bytes) THEN 0 ELSE bytes[i] * (256 ^ (i - 1)) + reduceBytes(bytes, i + 1)

\* the call returns with the first draw that is not above maxValid
randomIntResult(min, max, randomValue) == min + (randomValue % (max - min + 1))

RandomInt(min, max, bytes) ==
    LET range == max - min + 1
        randomValue == reduceBytes(bytes, 1)
    IN  /\ Idle
        /\ randomValue <= maxValid(range)
        /\ last' = [op |-> "randomInt", min |-> min, max |-> max,
                    maxValid |-> maxValid(range),
                    randomValue |-> randomValue,
                    result |-> randomIntResult(min, max, randomValue)]
        /\ UNCHANGED <<now, maxAttempts, limiterVars, verifierVars, issueVars, window, countVars>>

RandomIntNext ==
    \/ \E call \in RandomIntCalls :
         \E bytes \in Bytes(bytesNeeded(call[2] - call[1] + 1)) :
           RandomInt(call[1], call[2], bytes)
    \/ Return

SpecRandomInt == Init /\ [][RandomIntNext]_vars

\* ---------------------------------------- calls made on a destroyed verifier
\* Nothing in the code refuses a call after destroy(): the maps fill again
\* and no sweep is left to drain them.
Destroyed == ~cleanupInterval /\ ~rlCleanupInterval
Stopped == last = NoCall /\ Destroyed

LateTick == Stopped /\ TickStep

LateStoreChallenge(id, expectedAnswer, expiresAt) ==
    Stopped /\ StoreChallengeCall(id, expectedAnswer, expiresAt)

LateVerify(challenge, solution, clientIdentifier) ==
    Stopped /\ VerifyCall(challenge, solution, clientIdentifier)

LimiterNext ==
    \/ Tick
    \/ \E key \in Keys : RecordAttempt(key)
    \/ \E key \in Keys : IsRateLimited(key)
    \/ \E key \in Keys : GetRemainingAttempts(key)
    \/ \E key \in Keys : Reset(key)
    \/ Clear
    \/ LimiterSweep
    \/ LimiterDestroy
    \/ Return

SpecLimiter == Init /\ [][LimiterNext]_vars

\* one client against every edited form of the issued challenges
Next ==
    \/ Tick
    \/ \E puzzle \in PuzzlePool : Generate(puzzle)
    \/ \E id \in Ids, a \in StoredAnswers,
          e \in {now + expirationMs} : StoreChallenge(id, a, e)
    \/ \E c \in SubmittedChallenges, s \in SubmittedSolutions : Verify(c, s, "c1")
    \/ \E c \in SubmittedChallenges, s \in SubmittedSolutions : VerifyStateless(c, s, "c1")
    \/ GetRateLimitStatus("c1")
    \/ VerifierSweep
    \/ LimiterSweep
    \/ Destroy
    \/ Return

Spec == Init /\ [][Next]_vars

\* honest submissions only, and a verifier that is still used after destroy()
IssuedChallenges == {issued[i] : i \in DOMAIN issued}

ShutdownNext ==
    \/ Tick
    \/ \E puzzle \in PuzzlePool : Generate(puzzle)
    \/ \E c \in IssuedChallenges, s \in SubmittedSolutions : Verify(c, s, "c1")
    \/ VerifierSweep
    \/ LimiterSweep
    \/ Destroy
    \/ LateTick
    \/ \E id \in Ids, a \in StoredAnswers,
          e \in {now + expirationMs} : LateStoreChallenge(id, a, e)
    \/ \E c \in IssuedChallenges, s \in SubmittedSolutions : LateVerify(c, s, "c1")
    \/ Return

SpecShutdown == Init /\ [][ShutdownNext]_vars

\* request data as an attacker can send it: the signature or the answer
\* missing, or not a string
Malformed(c) == { [c EXCEPT !.signature = Undefined],
                  [c EXCEPT !.signature = NonString] }
RequestChallenges ==
    IssuedChallenges \cup UNION {Malformed(c) : c \in IssuedChallenges}
RequestAnswers ==
    {p.expectedAnswer : p \in PuzzlePool} \cup {"", Undefined, NonString}
RequestSolutions == [challengeId : Ids, solution : RequestAnswers]

AdversarialNext ==
    \/ Tick
    \/ \E puzzle \in PuzzlePool : Generate(puzzle)
    \/ \E c \in RequestChallenges, s \in RequestSolutions : Verify(c, s, "c1")
    \/ \E c \in RequestChallenges, s \in RequestSolutions : VerifyStateless(c, s, "c1")
    \/ \E c \in RequestChallenges, a \in RequestAnswers : VerificationEndpoint(c, a, "c1")
    \/ Return

SpecAdversarial == Init /\ [][AdversarialNext]_vars

\* limiter queries between the attempts and the verifications of two clients
QueriesNext ==
    \/ Tick
    \/ \E puzzle \in PuzzlePool : Generate(puzzle)
    \/ \E key \in Keys : RecordAttempt(key)
    \/ \E c \in IssuedChallenges, s \in SubmittedSolutions : Verify(c, s, "c1")
    \/ \E key \in Keys : IsRateLimited(key)
    \/ \E key \in Keys : GetRemainingAttempts(key)
    \/ Return

SpecQueries == Init /\ [][QueriesNext]_vars

\* sweeps between the calls made for an issued challenge and for another id
SweepNext ==
    \/ Tick
    \/ \E puzzle \in PuzzlePool : Generate(puzzle)
    \/ \E a \in StoredAnswers, e \in {now + expirationMs} : StoreChallenge(UnknownId, a, e)
    \/ \E c \in SubmittedChallenges, s \in SubmittedSolutions : Verify(c, s, "c1")
    \/ VerifierSweep
    \/ Return

SpecSweep == Init /\ [][SweepNext]_vars

\* A verifier that is never destroyed. The clock of the model stops at
\* MaxTime, so only the calls whose entries expire before MaxTime are made;
\* the two timers fire and the clock advances again and again whatever the
\* callers do (strong fairness), and every call returns.
ExpiresInTime ==
    /\ \A id \in DOMAIN challengeStore' : challengeStore'[id].expiresAt < MaxTime
    /\ \A k \in DOMAIN entries' : entries'[k].resetAt < MaxTime

EvictionNext ==
    \/ Tick
    \/ \E puzzle \in PuzzlePool : Generate(puzzle) /\ ExpiresInTime
    \/ \E a \in StoredAnswers, e \in {now + expirationMs} :
         StoreChallenge(UnknownId, a, e) /\ ExpiresInTime
    \/ \E c \in IssuedChallenges, s \in SubmittedSolutions :
         Verify(c, s, "c1") /\ ExpiresInTime
    \/ \E key \in Keys : RecordAttempt(key) /\ ExpiresInTime
    \/ VerifierSweep
    \/ LimiterSweep
    \/ Return

SpecEviction ==
    /\ Init
    /\ [][EvictionNext]_vars
    /\ SF_vars(Tick)
    /\ SF_vars(VerifierSweep)
    /\ SF_vars(LimiterSweep)
    /\ WF_vars(Return)

\* storeChallenge called by the application for any id, issued or not, stored,
\* consumed or evicted, with another answer, with an expiry time in the past
StoreNext ==
    \/ Tick
    \/ \E puzzle \in PuzzlePool : Generate(puzzle)
    \/ \E id \in Ids \cup {UnknownId}, a \in StoredAnswers \cup {"0"},
          e \in {0, now + expirationMs} : StoreChallenge(id, a, e)
    \/ \E c \in IssuedChallenges, s \in SubmittedSolutions : Verify(c, s, "c1")
    \/ VerifierSweep
    \/ Return

SpecStore == Init /\ [][StoreNext]_vars

\* callers with and without a client identifier share one verifier
AnonymousNext ==
    \/ Tick
    \/ \E puzzle \in PuzzlePool : Generate(puzzle)
    \/ \E c \in IssuedChallenges, s \in SubmittedSolutions,
          clientIdentifier \in ClientIdentifiers : Verify(c, s, clientIdentifier)
    \/ \E c \in IssuedChallenges, s \in SubmittedSolutions,
          clientIdentifier \in ClientIdentifiers : VerifyStateless(c, s, clientIdentifier)
    \/ Return

SpecAnonymous == Init /\ [][AnonymousNext]_vars

\* the two HTTP handlers with well-typed requests; the status a handler sends
\* depends on its own verification result only, so both run on one verifier
HeaderIds == {None} \cup {Some(i) : i \in Ids}
HeaderSolutions == {None} \cup {Some(p.expectedAnswer) : p \in PuzzlePool} \cup {Some("0")}
BodyChallenges == {None} \cup {Some(c) : c \in SubmittedChallenges}

TransportNext ==
    \/ Tick
    \/ \E puzzle \in PuzzlePool : Generate(puzzle)
    \/ \E puzzle \in PuzzlePool, i \in HeaderIds, s \in HeaderSolutions,
          c \in BodyChallenges : Protect(puzzle, i, s, c, "c1")
    \/ \E c \in SubmittedChallenges, a \in {p.expectedAnswer : p \in PuzzlePool} \cup {"0"} :
         VerificationEndpoint(c, a, "c1")
    \/ Return

SpecTransport == Init /\ [][TransportNext]_vars

\* ================================================================ claims
\* vocabulary of the claims, read off the record of the last call
IsVerify == last.op = "verify"
IsVerifyOrStateless == last.op \in {"verify", "verifyStateless"}
IsRecordAttempt == last.op = "recordAttempt"

\* the submitted challenge is one generate returned, as returned or as it
\* comes back from JSON transport
Unmodified(c) ==
    /\ MapHas(issued, c.id)
    /\ c \in {issued[c.id], JSONroundtrip(issued[c.id])}

\* the store held, before the call, what CaptchaLM.generate registered for id
Registered(store, id) ==
    /\ MapHas(store, id)
    /\ store[id] = [expectedAnswer |-> answers[id],
                    expiresAt |-> issued[id].expiresAt]

HonestCall ==
    /\ Unmodified(last.challenge)
    /\ last.solution = [challengeId |-> last.challenge.id,
                        solution |-> answers[last.challenge.id]]

ErrorCodeIs(code) == ~last.result.valid /\ last.result.errorCode = code

\* ---------------------------------------------------------------------- C1
\* C1: a challenge returned by generate and registered with storeChallenge is
\* accepted: verify with the unmodified challenge and solution
\* {challengeId: id, solution: expectedAnswer}, made at now <= expiresAt by a
\* client the rate limiter allows, returns valid = true.
C1_HonestSolutionAccepted ==
    (/\ IsVerify
     /\ HonestCall
     /\ Registered(last.store, last.challenge.id)
     /\ last.at <= last.challenge.expiresAt
     /\ last.allowed)
    => last.result.valid

\* an honest call made at the expiry instant itself, with the challenge as it
\* comes back from JSON (the undefined operand of 'abs' dropped)
C1_Witness ==
    /\ IsVerify
    /\ HonestCall
    /\ Registered(last.store, last.challenge.id)
    /\ last.challenge # issued[last.challenge.id]
    /\ last.at = last.challenge.expiresAt
    /\ last.allowed
    /\ last.result.valid

\* ---------------------------------------------------------------------- C2
\* C2: one-time use: for every challenge id the verify calls that returned
\* valid never outnumber the storeChallenge calls made for that id.
C2_OneTimeUse == \A i \in DOMAIN credit : credit[i] >= 0

\* a second honest verify of a challenge stored once and already verified,
\* by an allowed client before expiry: it is refused
C2_Witness ==
    /\ IsVerify
    /\ HonestCall
    /\ last.challenge.id \in last.wasConsumed
    /\ last.at <= last.challenge.expiresAt
    /\ last.allowed
    /\ ~last.result.valid
    /\ credit[last.challenge.id] = 0

\* ---------------------------------------------------------------------- C3
\* C3 as stated: after a verify returned valid, a second verify with the same
\* challenge and the same correct solution, before expiresAt and with no
\* storeChallenge for the id in between, returns CHALLENGE_NOT_FOUND.
C3_ReplayNotFound_AsStated ==
    (/\ IsVerify
     /\ HonestCall
     /\ last.challenge.id \in last.wasConsumed
     /\ last.at <= last.challenge.expiresAt)
    => ErrorCodeIs("CHALLENGE_NOT_FOUND")

\* C3 amended: ... a second verify by a client the rate limiter allows
\* returns CHALLENGE_NOT_FOUND; a rate-limited client gets RATE_LIMITED, and
\* in both cases valid = false.
C3_ReplayNotFound ==
    (/\ IsVerify
     /\ HonestCall
     /\ last.challenge.id \in last.wasConsumed
     /\ last.at <= last.challenge.expiresAt)
    => IF last.allowed THEN ErrorCodeIs("CHALLENGE_NOT_FOUND")
                       ELSE ErrorCodeIs("RATE_LIMITED")

C3_Witness ==
    /\ IsVerify
    /\ HonestCall
    /\ last.challenge.id \in last.wasConsumed
    /\ last.at <= last.challenge.expiresAt
    /\ last.allowed
    /\ ErrorCodeIs("CHALLENGE_NOT_FOUND")

\* ---------------------------------------------------------------------- C4
\* C4: verify made at now > challenge.expiresAt by a client the rate limiter
\* allows, with solution.challengeId = challenge.id, returns EXPIRED, even
\* with the stored expected answer and the genuine signature.
C4_ExpiredAfterExpiry ==
    (/\ IsVerify
     /\ last.allowed
     /\ last.solution.challengeId = last.challenge.id
     /\ last.at > last.challenge.expiresAt)
    => ErrorCodeIs("EXPIRED")

\* the honest call, one millisecond late, the entry still in the store
C4_Witness ==
    /\ IsVerify
    /\ HonestCall
    /\ Registered(last.store, last.challenge.id)
    /\ last.allowed
    /\ last.at = last.challenge.expiresAt + 1
    /\ ErrorCodeIs("EXPIRED")

\* ---------------------------------------------------------------------- C5
\* C5: no verification succeeds after expiry: a verify or verifyStateless
\* call that returns valid carries the id of an issued challenge and is made
\* at now <= the expiry that challenge was issued with, whatever expiresAt
\* the submitted object shows.
C5_NoSuccessAfterExpiry ==
    (IsVerifyOrStateless /\ last.result.valid)
    => /\ MapHas(issued, last.challenge.id)
       /\ last.at <= issued[last.challenge.id].expiresAt

\* after expiry, the issued challenge with expiresAt raised to a time still
\* ahead and the correct answer: stateless verification refuses it
C5_Witness ==
    /\ last.op = "verifyStateless"
    /\ MapHas(issued, last.challenge.id)
    /\ last.challenge = [issued[last.challenge.id] EXCEPT !.expiresAt = @ + 1]
    /\ last.solution = [challengeId |-> last.challenge.id,
                        solution |-> answers[last.challenge.id]]
    /\ last.at > issued[last.challenge.id].expiresAt
    /\ last.at <= last.challenge.expiresAt
    /\ last.allowed
    /\ ~last.result.valid

\* ---------------------------------------------------------------------- C6
\* the submitted object is the issued one with a payload field, the type or
\* expiresAt (to a time not yet passed) edited and the signature kept; the
\* entry is stored and not expired
TamperedCall ==
    /\ IsVerify
    /\ last.allowed
    /\ MapHas(issued, last.challenge.id)
    /\ last.challenge \in TamperedKeepingSignature(issued[last.challenge.id])
    /\ last.at <= last.challenge.expiresAt
    /\ MapHas(last.store, last.challenge.id)
    /\ last.at <= last.store[last.challenge.id].expiresAt

\* C6 as stated: such a call returns INVALID_SIGNATURE (nothing is said of
\* solution.challengeId).
C6_TamperDetected_AsStated == TamperedCall => ErrorCodeIs("INVALID_SIGNATURE")

\* C6 amended: such a call whose solution.challengeId equals challenge.id
\* returns INVALID_SIGNATURE, even when solution.solution is the stored
\* expected answer.
C6_TamperDetected ==
    (TamperedCall /\ last.solution.challengeId = last.challenge.id)
    => ErrorCodeIs("INVALID_SIGNATURE")

\* an edited payload field submitted with the stored expected answer
C6_Witness ==
    /\ TamperedCall
    /\ last.solution.challengeId = last.challenge.id
    /\ last.challenge.payload # issued[last.challenge.id].payload
    /\ last.solution.solution = last.store[last.challenge.id].expectedAnswer
    /\ ErrorCodeIs("INVALID_SIGNATURE")

\* ---------------------------------------------------------------------- C7
\* the checks of verify, each decided on the arguments and the state before
\* the call
RateCheckFails == ~last.allowed
IdCheckFails == last.challenge.id # last.solution.challengeId
ExpiryCheckFails == last.at > last.challenge.expiresAt
NoStoredEntry == ~MapHas(last.store, last.challenge.id)
StoredEntryExpired ==
    /\ MapHas(last.store, last.challenge.id)
    /\ last.at > last.store[last.challenge.id].expiresAt
SignatureCheckFails ==
    /\ MapHas(last.store, last.challenge.id)
    /\ last.challenge.signature #
         signChallenge(signatureData(last.challenge.id, last.challenge.type,
                                     last.challenge.payload,
                                     last.challenge.expiresAt,
                                     last.store[last.challenge.id].expectedAnswer),
                       secret)
AnswerCheckFails ==
    /\ MapHas(last.store, last.challenge.id)
    /\ last.solution.solution # last.store[last.challenge.id].expectedAnswer

FailingChecks ==
    {n \in 1..7 :
        \/ n = 1 /\ RateCheckFails
        \/ n = 2 /\ IdCheckFails
        \/ n = 3 /\ ExpiryCheckFails
        \/ n = 4 /\ NoStoredEntry
        \/ n = 5 /\ StoredEntryExpired
        \/ n = 6 /\ SignatureCheckFails
        \/ n = 7 /\ AnswerCheckFails}

CodeOfCheck ==
    <<"RATE_LIMITED", "CHALLENGE_NOT_FOUND", "EXPIRED", "CHALLENGE_NOT_FOUND",
      "EXPIRED", "INVALID_SIGNATURE", "INVALID_SOLUTION">>

FirstFailingCheck == CHOOSE n \in FailingChecks : \A m \in FailingChecks : n <= m

\* C7: verify reports the first failing check in the order rate limit, id
\* mismatch, challenge expired, no stored entry / stored entry expired,
\* signature mismatch, answer mismatch; with no failing check it is valid.
C7_FirstFailingCheckWins ==
    IsVerify =>
        IF FailingChecks = {} THEN last.result.valid
        ELSE ErrorCodeIs(CodeOfCheck[FirstFailingCheck])

\* a call failing the id check, the expiry check and the signature check at
\* once: the id check is reported
C7_Witness ==
    /\ IsVerify
    /\ {2, 3, 6} \subseteq FailingChecks
    /\ 1 \notin FailingChecks
    /\ ErrorCodeIs("CHALLENGE_NOT_FOUND")

\* ---------------------------------------------------------------------- C8
\* C8: once a key has made maxAttempts verify calls that did not succeed
\* inside its current window, every further verify or verifyStateless call of
\* the key inside that window returns RATE_LIMITED.
C8_RateLimitedAfterFailures ==
    (IsVerifyOrStateless /\ last.failedBefore >= maxAttempts)
    => ErrorCodeIs("RATE_LIMITED")

\* the honest call with the correct answer, refused after two failures
C8_Witness ==
    /\ IsVerifyOrStateless
    /\ maxAttempts = 2
    /\ last.failedBefore = maxAttempts
    /\ HonestCall
    /\ Registered(last.store, last.challenge.id)
    /\ last.at <= last.challenge.expiresAt
    /\ ErrorCodeIs("RATE_LIMITED")

\* ---------------------------------------------------------------------- C9
\* C9: inside one window with no reset in between, the first maxAttempts
\* recordAttempt calls of a key return allowed = true and every later one
\* returns allowed = false with remaining = 0.
C9_FirstMaxAttemptsAllowed ==
    IsRecordAttempt =>
        /\ last.allowed <=> window[last.key].calls <= maxAttempts
        /\ ~last.allowed => last.remaining = 0

\* the call after the last allowed one, and the one after that
C9_Witness ==
    /\ IsRecordAttempt
    /\ maxAttempts >= 1
    /\ window[last.key].calls = maxAttempts + 2
    /\ ~last.allowed
    /\ last.remaining = 0

\* --------------------------------------------------------------------- C10
\* C10 as stated: a recordAttempt made after the key's window ran out starts
\* a fresh window and returns allowed = true with remaining = maxAttempts - 1.
C10_Recovers_AsStated ==
    (IsRecordAttempt /\ last.afterElapsed)
    => /\ last.allowed
       /\ last.remaining = maxAttempts - 1

\* C10 amended: with maxAttempts >= 1, a recordAttempt made after the key's
\* window ran out starts a fresh window (count 1, resetAt = now + windowMs)
\* and returns allowed = true with remaining = maxAttempts - 1; with
\* maxAttempts = 0 it is denied like every other call.
C10_Recovers ==
    (IsRecordAttempt /\ last.afterElapsed)
    => /\ last.resetAt = last.at + windowMs
       /\ window[last.key].calls = 1
       /\ IF maxAttempts >= 1
          THEN /\ last.allowed
               /\ last.remaining = maxAttempts - 1
               /\ entries[last.key] = [count |-> 1, resetAt |-> last.at + windowMs]
          ELSE ~last.allowed

\* a key that was denied in its old window and whose stale entry is still in
\* the map is allowed again
C10_Witness ==
    /\ IsRecordAttempt
    /\ last.afterElapsed
    /\ last.hadEntry
    /\ maxAttempts >= 1
    /\ last.allowed
    /\ last.remaining = maxAttempts - 1

\* --------------------------------------------------------------------- C11
\* C11 as stated: every verify call that returns valid = false leaves the
\* challenge store exactly as it was before the call.
C11_FailureKeepsStore_AsStated ==
    (IsVerify /\ ~last.result.valid) => challengeStore = last.store

\* the failed call found the entry of challenge.id in the store, past the
\* entry's own expiresAt, after passing the rate, id and challenge-expiry checks
EvictingFailure ==
    /\ IsVerify
    /\ ~last.result.valid
    /\ FailingChecks # {}
    /\ FirstFailingCheck = 5

\* C11 amended: a verify call that returns valid = false leaves the challenge
\* store as it was, except the call that fails because the stored entry of
\* challenge.id is past its own expiresAt (errorCode EXPIRED): that call
\* deletes that one entry and leaves every other entry alone.
C11_FailureKeepsStore ==
    (IsVerify /\ ~last.result.valid)
    => challengeStore = IF EvictingFailure
                        THEN MapDelete(last.store, last.challenge.id)
                        ELSE last.store

\* a wrong answer for a stored, unexpired, correctly signed challenge: the
\* entry is still there after the call
C11_Witness ==
    /\ IsVerify
    /\ ErrorCodeIs("INVALID_SOLUTION")
    /\ Registered(last.store, last.challenge.id)
    /\ challengeStore = last.store

\* --------------------------------------------------------------------- C12
\* C12: when verify returns valid = true for client key k and challenge id c,
\* right after the call the challenge store has no entry for c, the rate
\* limiter has no entry for k, and getRateLimitStatus(k) reports
\* remaining = maxAttempts and isLimited = false, however many failed
\* attempts k made before.
C12_SuccessClearsBoth ==
    (IsVerify /\ last.result.valid)
    => /\ ~MapHas(challengeStore, last.challenge.id)
       /\ ~MapHas(entries, last.key)
       /\ getRateLimitStatus(entries, last.key, now).status
            = [remaining |-> maxAttempts, isLimited |-> FALSE]

\* success on the last attempt the window allowed, after a failure
C12_Witness ==
    /\ IsVerify
    /\ last.result.valid
    /\ maxAttempts = 2
    /\ last.failedBefore = 1
    /\ ~MapHas(entries, last.key)
    /\ ~MapHas(challengeStore, last.challenge.id)

\* --------------------------------------------------------------------- C13
IsStateless == last.op = "verifyStateless"

\* an unmodified, unexpired challenge submitted by a client the limiter allows
StatelessCase ==
    /\ IsStateless
    /\ Unmodified(last.challenge)
    /\ last.at <= last.challenge.expiresAt
    /\ last.allowed

\* C13 as stated: in that case verifyStateless returns valid = true iff
\* solution.solution equals the expectedAnswer signed at generation, and any
\* other solution returns INVALID_SOLUTION.
C13_StatelessWrongAnswerFails_AsStated ==
    StatelessCase
    => /\ last.result.valid <=> last.solution.solution = answers[last.challenge.id]
       /\ last.solution.solution # answers[last.challenge.id]
            => ErrorCodeIs("INVALID_SOLUTION")

\* C13 amended: in that case, and with solution.challengeId equal to
\* challenge.id, verifyStateless returns valid = true iff solution.solution
\* equals the signed expectedAnswer, and INVALID_SOLUTION otherwise.
C13_StatelessWrongAnswerFails ==
    (StatelessCase /\ last.solution.challengeId = last.challenge.id)
    => IF last.solution.solution = answers[last.challenge.id]
       THEN last.result.valid
       ELSE ErrorCodeIs("INVALID_SOLUTION")

\* the answer of the other puzzle, submitted for a challenge that came back
\* from JSON transport
C13_Witness ==
    /\ StatelessCase
    /\ last.solution.challengeId = last.challenge.id
    /\ last.challenge # issued[last.challenge.id]
    /\ last.solution.solution \in {p.expectedAnswer : p \in PuzzlePool}
    /\ last.solution.solution # answers[last.challenge.id]
    /\ ErrorCodeIs("INVALID_SOLUTION")

\* --------------------------------------------------------------------- C14
\* C14: verifyStateless leaves the challenge store as it was and does not
\* depend on it: the unmodified challenge with its correct answer, at
\* now <= expiresAt and passing the rate-limit check, is accepted whether the
\* id is stored, was never stored or was already consumed, and however often
\* it was accepted before.
C14_StatelessIgnoresStore ==
    IsStateless
    => /\ challengeStore = last.store
       /\ consumed = last.wasConsumed
       /\ (HonestCall /\ last.at <= last.challenge.expiresAt /\ last.allowed)
            => last.result.valid

\* the correct answer replayed after verify consumed the challenge
C14_Witness ==
    /\ IsStateless
    /\ HonestCall
    /\ last.challenge.id \in last.wasConsumed
    /\ ~MapHas(last.store, last.challenge.id)
    /\ last.at <= last.challenge.expiresAt
    /\ last.allowed
    /\ last.result.valid

\* --------------------------------------------------------------------- C15
SweepFired == last.op \in {"verifierSweep", "limiterSweep"}

\* C15: when destroy() returns both sweeps are stopped and the challenge
\* store and the rate-limit map are empty; and from then on the sweeps stay
\* stopped and never fire, whatever is called on the instance afterwards.
C15_DestroyStopsSweeps ==
    /\ [](last.op = "destroy"
           => /\ Destroyed
              /\ challengeStore = EmptyMap
              /\ entries = EmptyMap)
    /\ [][Destroyed => (Destroyed' /\ ~SweepFired')]_vars

\* destroy() has just emptied a store and a rate-limit map that both held
\* an entry
C15_Witness ==
    /\ last.op = "destroy"
    /\ last.store # EmptyMap
    /\ last.entries # EmptyMap
    /\ Destroyed
    /\ challengeStore = EmptyMap
    /\ entries = EmptyMap

\* --------------------------------------------------------------------- C16
IsVerificationCall ==
    \/ IsVerifyOrStateless
    \/ last.op = "verificationEndpoint" /\ last.status # 400

ErrorCodes == {"RATE_LIMITED", "CHALLENGE_NOT_FOUND", "EXPIRED",
               "INVALID_SIGNATURE", "INVALID_SOLUTION"}

MalformedCall ==
    \/ last.challenge.signature \in {Undefined, NonString}
    \/ last.solution.solution \in {Undefined, NonString}

\* C16: verify and verifyStateless are total: every call returns a
\* VerificationResult instead of raising an exception, and for a challenge
\* with a missing or non-string signature or a solution with a missing or
\* non-string solution field the result has valid = false and one of the five
\* error codes.
C16_Total ==
    IsVerificationCall
    => /\ ~last.result.threw
       /\ MalformedCall => (~last.result.valid /\ last.result.errorCode \in ErrorCodes)

\* the calls that do return a result for malformed data
C16_MalformedRejected ==
    /\ IsVerificationCall
    /\ MalformedCall
    /\ ~last.result.threw
    /\ ~last.result.valid
    /\ last.result.errorCode = "INVALID_SIGNATURE"

\* --------------------------------------------------------------------- C17
\* every surrogate of the string is half of a pair
RECURSIVE WellFormed(_)
WellFormed(str) ==
    IF str = <<>> THEN TRUE
    ELSE IF IsHighSurrogate(Head(str))
    THEN Len(str) >= 2 /\ IsLowSurrogate(str[2]) /\ WellFormed(Tail(Tail(str)))
    ELSE ~IsLowSurrogate(Head(str)) /\ WellFormed(Tail(str))

\* C17 as stated: for every encoding kind k and every string s,
\* decode(encode(s, k), k) equals s.
C17_RoundTrip_AsStated ==
    last.op = "roundTrip" => last.decoded = last.value

\* C17 amended: decode(encode(s, k), k) equals s for every kind k and every
\* string s in which no surrogate is unpaired; for plain and rot13 it does so
\* for every string.
C17_RoundTrip ==
    (/\ last.op = "roundTrip"
     /\ WellFormed(last.value) \/ last.encoding \in {"plain", "rot13"})
    => last.decoded = last.value

\* a string with a pair and a two-byte character through base64 or hex
C17_Witness ==
    /\ last.op = "roundTrip"
    /\ last.encoding \in {"base64", "hex"}
    /\ \E i \in DOMAIN last.value : IsHighSurrogate(last.value[i])
    /\ WellFormed(last.value)
    /\ last.encoded # last.value
    /\ last.decoded = last.value

\* --------------------------------------------------------------------- C18
\* C18 as stated: for every string v and every list ks of encoding kinds,
\* decodeChain(encodeChain(v, ks), ks) equals v.
C18_ChainRoundTrip_AsStated ==
    last.op = "chainRoundTrip" => last.decoded = last.value

\* C18 amended: decodeChain(encodeChain(v, ks), ks) equals v for every list
\* ks (empty, or with repeated kinds) and every string v in which no
\* surrogate is unpaired, and for every string v when ks holds neither
\* base64 nor hex.
C18_ChainRoundTrip ==
    (/\ last.op = "chainRoundTrip"
     /\ \/ WellFormed(last.value)
        \/ \A i \in DOMAIN last.encodings : last.encodings[i] \in {"plain", "rot13"})
    => last.decoded = last.value

\* two different layers, neither its own inverse in the other order
C18_Witness ==
    /\ last.op = "chainRoundTrip"
    /\ last.encodings = <<"rot13", "base64">>
    /\ last.value # <<>>
    /\ last.decoded = last.value
    /\ decodeReduce(last.encoded, last.encodings) # last.value

\* --------------------------------------------------------------------- C19
WellFormedHex(str) ==
    /\ Len(str) % 2 = 0
    /\ \A i \in DOMAIN str : HexValue(str[i]) >= 0

\* C19: decode(value, 'hex') fails with a decode error for every value that
\* is not a well-formed hex string (odd length, or a non-hex character); it
\* never returns a string for such input.
C19_HexDecodeFails ==
    (last.op = "decode" /\ last.encoding = "hex" /\ ~WellFormedHex(last.value))
    => last.threw

\* --------------------------------------------------------------------- C20
\* C20: for every registry function the generator can select, at any
\* difficulty, executing the embedded functionCode on the embedded
\* parameters the way the client does and encoding the value with
\* responseEncoding gives expectedAnswer.
C20_PayloadSelfSufficient ==
    last.op = "generateFunctionExecution" => last.solution = last.expectedAnswer

\* it does for the functions whose source text is in codeMap
C20_CodeMapFunctionsAgree ==
    (/\ last.op = "generateFunctionExecution"
     /\ last.payload.functionName \in CodeMapNames)
    => last.solution = last.expectedAnswer

\* --------------------------------------------------------------------- C21
\* C21: generate({type: 'function_execution', difficulty}) returns a challenge
\* for every difficulty, every registry function of that difficulty and every
\* argument list generateParameters can draw for it: it never raises.
C21_GenerateNeverThrows ==
    last.op = "generate" => ~last.threw

\* it does return for the functions generateParameters has a case for, as
\* long as the random array holds two distinct values
C21_ThrowsOnlyForUncoveredArguments ==
    (last.op = "generate" /\ last.threw)
    => \/ last.functionName = "applyChainedOperations" /\ Len(last.parameters) = 1
       \/ /\ last.functionName = "secondLargest"
          /\ \A i \in 1..Len(last.parameters[1]) :
               last.parameters[1][i] = last.parameters[1][1]

\* --------------------------------------------------------------------- C22
\* C22: for every chained_operations payload the generator produces, applying
\* the operations left to right to initialValue, with the solver's
\* executeChainedOperations and with applyChainedOperations, gives the running
\* value the generator encoded as expectedAnswer.
C22_SolverMatchesGenerator ==
    last.op = "generateChainedOperations"
    => /\ last.executed = last.currentValue
       /\ last.applied = last.currentValue
       /\ last.solution = last.expectedAnswer

\* initial value 42 with [multiply 3, add 17, modulo 50] yields 43
C22_Witness ==
    /\ last.op = "generateChainedOperations"
    /\ last.payload.initialValue = 42
    /\ last.payload.operations =
         << [operation |-> "multiply", value |-> Some(3)],
            [operation |-> "add", value |-> Some(17)],
            [operation |-> "modulo", value |-> Some(50)] >>
    /\ last.executed = 43
    /\ last.expectedAnswer = <<52, 51>>

\* --------------------------------------------------------------------- C23
\* a handler relayed the result of a verification
Relayed(handler) == last.op = handler /\ "result" \in DOMAIN last

StatusHint(result) ==
    IF result.valid THEN 200
    ELSE IF result.errorCode = "RATE_LIMITED" THEN 429 ELSE 401

\* C23: every verification result relayed by the protect middleware or by the
\* stateless verification endpoint has the status of its error code:
\* RATE_LIMITED 429, every other invalid result 401, a valid result 200.
C23_StatusHint ==
    (Relayed("protect") \/ Relayed("verificationEndpoint"))
    => last.status = StatusHint(last.result)

\* the protect middleware does answer with the hinted status
C23_ProtectStatusHint ==
    Relayed("protect") => last.status = StatusHint(last.result)

\* the stateless endpoint answers a rate-limited client with status 200
C23_EndpointRateLimited200 ==
    /\ Relayed("verificationEndpoint")
    /\ last.result.errorCode = "RATE_LIMITED"
    /\ last.status = 200

\* the protect middleware answers a rate-limited client with status 429
C23_ProtectRateLimited429 ==
    /\ Relayed("protect")
    /\ last.result.errorCode = "RATE_LIMITED"
    /\ last.status = 429

\* --------------------------------------------------------------------- C24
\* the accepted candidates of a call that produce the value v
Producers(min, max, accepted, v) ==
    {c \in accepted : randomIntResult(min, max, c) = v}

\* C24: with n = max - min + 1, the candidates the rejection loop accepts
\* (0..maxValid) are a positive multiple of n in number, every result lies in
\* [min, max], and every value of [min, max] is produced by the same number
\* of accepted candidates.
C24_Unbiased ==
    last.op = "randomInt"
    => LET n == last.max - last.min + 1
           accepted == 0..last.maxValid
       IN  /\ Cardinality(accepted) > 0
           /\ Cardinality(accepted) % n = 0
           /\ last.result \in last.min..last.max
           /\ \A v \in last.min..last.max :
                Cardinality(Producers(last.min, last.max, accepted, v)) * n
                  = Cardinality(accepted)

\* a call over a range that does not divide 256 returned its largest value
C24_Witness ==
    /\ last.op = "randomInt"
    /\ last.max - last.min + 1 = 6
    /\ last.maxValid = 251
    /\ last.result = last.max

\* --------------------------------------------------------------------- C25
IsGeneratedPayload ==
    last.op \in {"generateFunctionExecution", "generateChainedOperations",
                 "generateEncodedInstruction", "generateCodeTransform"}

\* the value the generator computed before encoding it
GeneratedResult ==
    CASE last.op = "generateFunctionExecution" ->
            fn(last.payload.functionName, last.payload.parameters)
      [] last.op = "generateChainedOperations" -> Num(last.currentValue)
      [] OTHER -> last.result

CountInBounds ==
    \A k \in DOMAIN entries : 0 <= entries[k].count /\ entries[k].count <= maxAttempts

\* the step is a call recordAttempt(k)
RecordAttemptStep(k) == last = NoCall /\ last'.op = "recordAttempt" /\ last'.key = k

\* the count of k's entry as the call finds it
CountBefore(k) == IF MapHas(entries, k) THEN entries[k].count ELSE 0

\* the count of k's current window: 0 without entry or once the window elapsed
CountOfWindow(k) ==
    IF MapHas(entries, k) /\ now <= entries[k].resetAt THEN entries[k].count ELSE 0

\* as stated: every allowed recordAttempt leaves the entry's count one higher
\* than it found it
C26_CountBounded_AsStated ==
    /\ []CountInBounds
    /\ [][\A k \in Keys : RecordAttemptStep(k)
            => entries'[k].count = IF last'.allowed THEN CountBefore(k) + 1
                                   ELSE CountBefore(k)]_vars

\* C26: in every reachable state of the rate limiter every entry has
\* 0 <= count <= maxAttempts; a denied recordAttempt leaves count unchanged
\* and an allowed one increases it by exactly 1, starting again from 0 when
\* the key's previous window has elapsed.
C26_CountBounded ==
    /\ []CountInBounds
    /\ [][\A k \in Keys : RecordAttemptStep(k)
            => /\ ~last'.allowed => entries'[k].count = CountBefore(k)
               /\ last'.allowed => entries'[k].count = CountOfWindow(k) + 1]_vars

\* an allowed attempt found a full entry of an elapsed window: count 2 became 1
C26_Witness ==
    /\ last.op = "recordAttempt"
    /\ last.allowed
    /\ last.hadEntry
    /\ last.afterElapsed
    /\ maxAttempts = 2
    /\ last.remaining = 1
    /\ entries[last.key].count = 1

\* --------------------------------------------------------------------- C27
\* the step is a verify or verifyStateless call of client key k that the rate
\* limiter let through
AdmittedVerification(k) ==
    /\ last = NoCall
    /\ last'.op \in {"verify", "verifyStateless"}
    /\ last'.key = k
    /\ last'.allowed

\* k's window holds one attempt more than before, and ends when it did
\* (a window that had elapsed or did not exist starts now)
ConsumesOneAttempt(k) ==
    /\ MapHas(entries', k)
    /\ entries'[k].count = CountOfWindow(k) + 1
    /\ entries'[k].resetAt = IF MapHas(entries, k) /\ now <= entries[k].resetAt
                             THEN entries[k].resetAt ELSE now + windowMs

\* C27: every verify or verifyStateless call that the rate limiter does not
\* deny consumes exactly one attempt of the client's window, whichever later
\* check it fails; only a successful stateful verify clears the window.
C27_OneAttemptPerCall ==
    [][\A k \in Keys : AdmittedVerification(k)
         => IF last'.op = "verify" /\ last'.result.valid
            THEN ~MapHas(entries', k)
            ELSE ConsumesOneAttempt(k)]_vars

\* a stateless verification succeeded as the client's second attempt
C27_Witness ==
    /\ last.op = "verifyStateless"
    /\ last.allowed
    /\ last.result.valid
    /\ entries[last.key].count = 2

\* each failing check was reached by an admitted call that was counted
C27_WitnessFailures ==
    /\ last.op = "verify"
    /\ last.allowed
    /\ last.result.errorCode = "INVALID_SIGNATURE"
    /\ entries[last.key].count = 2

\* --------------------------------------------------------------------- C28
\* the keys whose window has elapsed at time t
ElapsedKeys(ents, t) == {k \in DOMAIN ents : t > ents[k].resetAt}

\* ents without the entries of the keys in D
Without(ents, D) == [k \in (DOMAIN ents) \ D |-> ents[k]]

\* the step is a call isRateLimited(k) or getRemainingAttempts(k)
QueryStep(k) ==
    /\ last = NoCall
    /\ last'.op \in {"isRateLimited", "getRemainingAttempts"}
    /\ last'.key = k

\* what a query may change: nothing, or k's entry of an elapsed window
QueryFrame(k) ==
    /\ \/ entries' = entries
       \/ /\ last'.op = "isRateLimited"
          /\ k \in ElapsedKeys(entries, now)
          /\ entries' = Without(entries, {k})
    /\ UNCHANGED <<now, maxAttempts, rlCleanupInterval, verifierVars>>

\* recordAttempt and verify cannot tell whether entries of elapsed windows
\* were deleted: same results, and the same entries up to such deletions
BlindToElapsedEntries ==
    \A D \in SUBSET ElapsedKeys(entries, now) :
      /\ \A k \in Keys :
           LET with == recordAttempt(entries, k, now)
               without == recordAttempt(Without(entries, D), k, now)
           IN  /\ with.allowed = without.allowed
               /\ with.remaining = without.remaining
               /\ with.resetAt = without.resetAt
               /\ without.entries = Without(with.entries, D \ {k})
      /\ \A c \in IssuedChallenges, s \in SubmittedSolutions, client \in {"c1", Undefined} :
           LET with == verify(challengeStore, entries, c, s, client, now)
               without == verify(challengeStore, Without(entries, D), c, s, client, now)
           IN  /\ with.result = without.result
               /\ with.store = without.store
               /\ without.entries = Without(with.entries, D \ {ClientKey(client)})

\* C28: isRateLimited and getRemainingAttempts are observationally read-only:
\* a call changes nothing except that isRateLimited may delete the entry of a
\* window that has already elapsed, and no later recordAttempt result
\* (allowed, remaining, resetAt) or verify outcome depends on such entries.
C28_QueriesReadOnly ==
    /\ []BlindToElapsedEntries
    /\ [][\A k \in Keys : QueryStep(k) => QueryFrame(k)]_vars

\* isRateLimited has just deleted the entry of an elapsed window
C28_Witness ==
    /\ last.op = "isRateLimited"
    /\ ~last.limited
    /\ window[last.key].elapsed
    /\ ~MapHas(entries, last.key)
    /\ \E k \in ElapsedKeys(entries, now) : k # last.key

\* --------------------------------------------------------------------- C29
\* k has an entry whose window has not elapsed
InsideWindow(k) == MapHas(entries, k) /\ now <= entries[k].resetAt

\* the step is a call recordAttempt(k) or isRateLimited(k)
AttemptOrLookupStep(k) ==
    /\ last = NoCall
    /\ last'.op \in {"recordAttempt", "isRateLimited"}
    /\ last'.key = k

\* C29: the window is fixed: it is created with resetAt = now + windowMs, and
\* no recordAttempt (allowed or denied) or isRateLimited call made inside it
\* changes resetAt, so denied attempts never postpone the end of the window.
C29_FixedWindow ==
    [][\A k \in Keys :
         /\ (AttemptOrLookupStep(k) /\ InsideWindow(k))
            => /\ MapHas(entries', k)
               /\ entries'[k].resetAt = entries[k].resetAt
               /\ last'.op = "recordAttempt" => last'.resetAt = entries[k].resetAt
         /\ (RecordAttemptStep(k) /\ ~InsideWindow(k))
            => /\ entries'[k].resetAt = now + windowMs
               /\ last'.resetAt = now + windowMs]_vars

\* an attempt was denied later in the window and the window still ends when
\* it was going to
C29_Witness ==
    /\ last.op = "recordAttempt"
    /\ ~last.allowed
    /\ maxAttempts >= 1
    /\ window[last.key].open
    /\ last.at > window[last.key].t0
    /\ entries[last.key].resetAt = window[last.key].t0 + windowMs
    /\ last.resetAt = window[last.key].t0 + windowMs

\* --------------------------------------------------------------------- C30
\* the challenge issued with this id is unexpired and no verify has
\* succeeded for it
Pending(id) ==
    /\ MapHas(issued, id)
    /\ id \notin consumed
    /\ now <= issued[id].expiresAt

\* the step is a run of the verifier's eviction sweep
SweepStep == last = NoCall /\ last'.op = "verifierSweep"

\* C30: an eviction sweep removes exactly the entries with now > expiresAt;
\* while a challenge is stored, unexpired and not yet successfully verified,
\* no interleaving of sweeps and of storeChallenge and verify calls for other
\* ids makes a verify with its id return CHALLENGE_NOT_FOUND.
C30_SweepKeepsLiveChallenges ==
    /\ [](\A id \in Ids : Pending(id) => MapHas(challengeStore, id))
    /\ []((/\ last.op = "verify"
           /\ last.challenge.id = last.solution.challengeId
           /\ last.challenge.id \in Ids
           /\ MapHas(issued, last.challenge.id)
           /\ last.challenge.id \notin last.wasConsumed
           /\ last.at <= issued[last.challenge.id].expiresAt)
          => last.result.errorCode # "CHALLENGE_NOT_FOUND")
    /\ [][SweepStep
            => /\ DOMAIN challengeStore'
                    = {id \in DOMAIN challengeStore : ~(now > challengeStore[id].expiresAt)}
               /\ \A id \in DOMAIN challengeStore' :
                    challengeStore'[id] = challengeStore[id]]_vars

\* the entry stored for another id has been evicted, and the issued challenge
\* was still found and verified at its expiry instant
C30_Witness ==
    /\ last.op = "verify"
    /\ last.result.valid
    /\ last.at = issued[last.challenge.id].expiresAt
    /\ last.at > 0
    /\ ~MapHas(last.store, UnknownId)
    /\ credit[UnknownId] > 0

\* --------------------------------------------------------------------- C31
\* C31: while the verifier is not destroyed, the clock advances and the sweep
\* timers keep firing, every entry of the challenge store is eventually
\* removed once no storeChallenge for its id follows, and every rate-limit
\* entry is eventually removed once its key makes no further attempt.
C31_EventualEviction ==
    /\ \A id \in Ids \cup {UnknownId} :
         MapHas(challengeStore, id) ~> ~MapHas(challengeStore, id)
    /\ \A k \in Keys : MapHas(entries, k) ~> ~MapHas(entries, k)

\* a sweep has just evicted the abandoned challenge and a client's old window
C31_Witness ==
    /\ last.op = "verifierSweep"
    /\ credit[UnknownId] > 0
    /\ ~MapHas(challengeStore, UnknownId)
    /\ \E k \in Keys : window[k].elapsed /\ ~MapHas(entries, k)

\* --------------------------------------------------------------------- C32
\* the step is a call storeChallenge(id, a, e)
StoreChallengeStep(id) ==
    last = NoCall /\ last'.op = "storeChallenge" /\ last'.id = id

\* C32: storeChallenge(id, a, e) always succeeds and overwrites: afterwards
\* the entry of id is exactly {expectedAnswer: a, expiresAt: e}, whatever was
\* stored or consumed under id before, and the entries of all other ids are
\* unchanged.
C32_StoreOverwrites ==
    [][\A id \in Ids \cup {UnknownId} : StoreChallengeStep(id)
         => /\ MapHas(challengeStore', id)
            /\ challengeStore'[id] = [expectedAnswer |-> last'.expectedAnswer,
                                      expiresAt |-> last'.expiresAt]
            /\ DOMAIN challengeStore' = DOMAIN challengeStore \cup {id}
            /\ \A other \in DOMAIN challengeStore \ {id} :
                 challengeStore'[other] = challengeStore[other]]_vars

\* the entry of an issued challenge was overwritten with another answer and
\* another expiry time, next to the entry of another id
C32_Witness ==
    /\ last.op = "storeChallenge"
    /\ MapHas(issued, last.id)
    /\ MapHas(challengeStore, UnknownId)
    /\ credit[last.id] = 2
    /\ answers[last.id] # last.expectedAnswer
    /\ issued[last.id].expiresAt # last.expiresAt
    /\ challengeStore[last.id].expectedAnswer = "0"

\* a consumed id was stored again
C32_WitnessConsumed ==
    /\ last.op = "storeChallenge"
    /\ MapHas(issued, last.id)
    /\ credit[last.id] = 1
    /\ last.id \notin consumed
    /\ last.at > 0
    /\ challengeStore[last.id].expiresAt = 0

\* --------------------------------------------------------------------- C33
\* the submitted challenge is the issued one with the keys of its payload in
\* another order: the same keys, the same values
Reordered(c) ==
    /\ MapHas(issued, c.id)
    /\ c = [issued[c.id] EXCEPT !.payload = SwapFirstTwo(@)]
    /\ c # issued[c.id]

\* C33: the signed serialization is canonical with respect to key order: a
\* challenge whose payload has the keys and values of the issued one in a
\* different order recomputes to the same signature, and verify accepts it
\* with the correct answer instead of returning INVALID_SIGNATURE.
C33_KeyOrderCanonical ==
    (/\ IsVerify
     /\ Reordered(last.challenge)
     /\ last.solution = [challengeId |-> last.challenge.id,
                         solution |-> answers[last.challenge.id]]
     /\ Registered(last.store, last.challenge.id)
     /\ last.at <= last.challenge.expiresAt
     /\ last.allowed)
    => last.result.valid

\* what verify answers instead
C33_ReorderedIsInvalidSignature ==
    (/\ IsVerify
     /\ Reordered(last.challenge)
     /\ Registered(last.store, last.challenge.id)
     /\ last.solution.challengeId = last.challenge.id
     /\ last.at <= last.challenge.expiresAt
     /\ last.allowed)
    => ErrorCodeIs("INVALID_SIGNATURE")

\* --------------------------------------------------------------------- C34
\* an operation that divides or takes a remainder by zero when the sequence is
\* simulated, or that has no operand to divide by
ZeroDivisor(op) ==
    /\ op.operation \in {"divide", "modulo"}
    /\ (IF op.value = None THEN TRUE ELSE op.value[1] = 0)

\* C34: in every chained_operations payload the generator can produce, at any
\* difficulty, no operation is a divide or a modulo with operand 0 or with a
\* missing operand, so simulating the sequence (applyChainedOperations) never
\* throws for a zero divisor.
C34_NoZeroDivisor ==
    last.op = "generateChainedOperations"
    => /\ \A i \in 1..Len(last.payload.operations) :
            ~ZeroDivisor(last.payload.operations[i])
       /\ ~applyChainedOperationsThrows(last.payload.initialValue,
                                        Some(last.payload.operations))

\* a hard payload with a remainder as its last operation
C34_Witness ==
    /\ last.op = "generateChainedOperations"
    /\ last.difficulty = "hard"
    /\ last.payload.operations[Len(last.payload.operations)] =
         [operation |-> "modulo", value |-> Some(10)]
    /\ \E i \in 1..Len(last.payload.operations) :
         last.payload.operations[i].operation = "negate"

\* --------------------------------------------------------------------- C35
\* the submitted challenge with another value in its difficulty field
WithDifficulty(c, d) == [c EXCEPT !.difficulty = d]

\* C35: the difficulty field of a Challenge is not covered by the signature:
\* whatever challenge and solution a client submits, at any time and in any
\* state of the store and of the limiter, verify and verifyStateless return
\* the same result (valid flag and errorCode) when only challenge.difficulty
\* is changed. Every state of the store and of the limiter is reached between
\* two calls, so the two results are compared there.
C35_DifficultyNotSigned ==
    last = NoCall =>
    \A c \in SubmittedChallenges, s \in SubmittedSolutions, d \in Difficulties :
        /\ verify(challengeStore, entries, WithDifficulty(c, d), s, "c1", now).result
             = verify(challengeStore, entries, c, s, "c1", now).result
        /\ verifyStateless(entries, WithDifficulty(c, d), s, "c1", now).result
             = verifyStateless(entries, c, s, "c1", now).result

\* the issued challenge came back with another difficulty and was accepted
C35_Witness ==
    /\ IsVerify
    /\ MapHas(issued, last.challenge.id)
    /\ last.challenge = WithDifficulty(issued[last.challenge.id], "hard")
    /\ last.challenge # issued[last.challenge.id]
    /\ last.result.valid

C35_WitnessStateless ==
    /\ IsStateless
    /\ MapHas(issued, last.challenge.id)
    /\ last.challenge = WithDifficulty(issued[last.challenge.id], "hard")
    /\ last.challenge # issued[last.challenge.id]
    /\ last.result.valid

\* --------------------------------------------------------------------- C36
\* the step is a verify or verifyStateless call of client key k
VerificationStep(k) ==
    /\ last = NoCall
    /\ last'.op \in {"verify", "verifyStateless"}
    /\ last'.key = k

\* k's window is running and holds maxAttempts successful verifyStateless calls
StatelessSuccessesFillWindow(k) ==
    /\ WindowOpen(k)
    /\ window[k].passed >= maxAttempts

\* C36: a successful verifyStateless does not reset the client's rate-limit
\* window but consumes one attempt of it; after maxAttempts successful
\* verifyStateless calls by one client key inside a window, the next call by
\* that key in the window returns RATE_LIMITED, whatever its answer.
C36_StatelessSuccessCounts ==
    [][\A k \in Keys : VerificationStep(k)
         => /\ (last'.op = "verifyStateless" /\ last'.result.valid)
                 => ConsumesOneAttempt(k)
            /\ StatelessSuccessesFillWindow(k)
                 => last'.result = Invalid("RATE_LIMITED")]_vars

\* two stateless verifications succeeded, the third one, with the same
\* unmodified challenge and the correct answer, is rate limited
C36_Witness ==
    /\ last.op = "verifyStateless"
    /\ maxAttempts = 2
    /\ window[last.key].passed = 2
    /\ window[last.key].calls = 3
    /\ Unmodified(last.challenge)
    /\ last.solution = [challengeId |-> last.challenge.id,
                        solution |-> answers[last.challenge.id]]
    /\ last.at <= last.challenge.expiresAt
    /\ last.result = Invalid("RATE_LIMITED")

\* --------------------------------------------------------------------- C37
\* getRateLimitStatus(k) has just returned, and a verify call by k at this
\* same time, whatever it submits, is answered RATE_LIMITED exactly when the
\* status said isLimited
StatusAgreesWithEnforcement ==
    \A c \in SubmittedChallenges, s \in SubmittedSolutions :
        last.status.isLimited
        <=> (verify(challengeStore, entries, c, s, last.key, now).result
               = Invalid("RATE_LIMITED"))

LimitedIffNothingRemains == last.status.isLimited <=> (last.status.remaining = 0)

\* k has an entry whose window is still running
InRunningWindow(k) == MapHas(entries, k) /\ now <= entries[k].resetAt

\* C37: for every configuration with maxAttempts >= 0 and every non-empty
\* client key k, getRateLimitStatus(k).isLimited is true exactly when a verify
\* call by k at that same time would return RATE_LIMITED, and exactly when
\* remaining is 0.
C37_StatusAgrees ==
    (last.op = "getRateLimitStatus" /\ maxAttempts >= 0)
    => StatusAgreesWithEnforcement /\ LimitedIffNothingRemains

\* where the status and the enforcement part: they agree for maxAttempts >= 1,
\* and with maxAttempts = 0 while k has an entry of a running window;
\* otherwise isLimited is false although remaining is 0 and verify returns
\* RATE_LIMITED.
C37_AgreesExceptUnseenKeyAtZero ==
    last.op = "getRateLimitStatus"
    => IF maxAttempts >= 1 \/ InRunningWindow(last.key)
       THEN StatusAgreesWithEnforcement /\ LimitedIffNothingRemains
       ELSE /\ ~last.status.isLimited
            /\ last.status.remaining = 0
            /\ \A c \in SubmittedChallenges, s \in SubmittedSolutions :
                 verify(challengeStore, entries, c, s, last.key, now).result
                   = Invalid("RATE_LIMITED")

\* the status of a client that used its two attempts, with a challenge issued
C37_Witness ==
    /\ last.op = "getRateLimitStatus"
    /\ maxAttempts = 2
    /\ last.status.isLimited
    /\ last.status.remaining = 0
    /\ SubmittedChallenges # {}

\* the status of a client that may still attempt
C37_WitnessNotLimited ==
    /\ last.op = "getRateLimitStatus"
    /\ maxAttempts = 2
    /\ ~last.status.isLimited
    /\ last.status.remaining = 1
    /\ SubmittedChallenges # {}

\* --------------------------------------------------------------------- C38
\* the step is a verify or verifyStateless call made without a client
\* identifier (undefined or the empty string)
IdentifierLessStep ==
    /\ last = NoCall
    /\ last'.op \in {"verify", "verifyStateless"}
    /\ last'.clientIdentifier \in {Undefined, ""}

\* the step is a verify or verifyStateless call of a client with its own key
OwnKeyStep(k) ==
    /\ last = NoCall
    /\ last'.op \in {"verify", "verifyStateless"}
    /\ last'.clientIdentifier = k
    /\ k \notin {Undefined, "", "anonymous"}

\* the failed calls of key k in its running window: every attempt that was
\* not a successful verifyStateless (a successful verify closes the window)
FailedCalls(k) == IF WindowOpen(k) THEN window[k].calls - window[k].passed ELSE 0

\* the limiter is left as by the same call made with the key 'anonymous'
AccountedAsAnonymous ==
    entries' = IF last'.op = "verify"
               THEN verify(challengeStore, entries, last'.challenge, last'.solution,
                           "anonymous", now).entries
               ELSE verifyStateless(entries, last'.challenge, last'.solution,
                                    "anonymous", now).entries

\* the entries of the keys other than k stay as they are
OtherKeysKept(k) == Without(entries', {k}) = Without(entries, {k})

\* C38: every verify and verifyStateless call made without a client identifier
\* (undefined or empty string) is accounted under the one key 'anonymous':
\* once maxAttempts failed calls of such callers lie in the running window,
\* every identifier-less call is RATE_LIMITED for the rest of the window; a
\* caller with a distinct non-empty key is unaffected: its entry is left alone
\* by these calls and its own results do not depend on the 'anonymous' entry.
C38_AnonymousShared ==
    [][/\ IdentifierLessStep
            => /\ last'.key = "anonymous"
               /\ AccountedAsAnonymous
               /\ OtherKeysKept("anonymous")
               /\ FailedCalls("anonymous") >= maxAttempts
                    => last'.result = Invalid("RATE_LIMITED")
       /\ \A k \in ClientIdentifiers : OwnKeyStep(k)
            => /\ last'.key = k
               /\ OtherKeysKept(k)
               /\ last'.result =
                    IF last'.op = "verify"
                    THEN verify(challengeStore, Without(entries, {"anonymous"}),
                                last'.challenge, last'.solution, k, now).result
                    ELSE verifyStateless(Without(entries, {"anonymous"}),
                                         last'.challenge, last'.solution, k, now).result
      ]_vars

\* two callers without identifier, one passing undefined and one the empty
\* string, failed; the third identifier-less call, with the correct answer,
\* is rate limited
C38_Witness ==
    /\ last.op = "verify"
    /\ last.clientIdentifier = ""
    /\ maxAttempts = 2
    /\ window["anonymous"].calls = 3
    /\ window["anonymous"].failed = 3
    /\ entries["anonymous"].count = 2
    /\ last.solution = [challengeId |-> last.challenge.id,
                        solution |-> answers[last.challenge.id]]
    /\ last.result = Invalid("RATE_LIMITED")

\* while 'anonymous' is limited, the client with its own key is served
C38_WitnessOwnKey ==
    /\ last.op = "verify"
    /\ last.clientIdentifier = "c1"
    /\ maxAttempts = 2
    /\ MapHas(entries, "anonymous")
    /\ entries["anonymous"].count = 2
    /\ now <= entries["anonymous"].resetAt
    /\ last.result.valid

====
